---- MODULE Spec2Model ----
(***************************************************************************)
(* A model of walliscode/pdf_merger: the PDFMerger engine of               *)
(* src/pdf_merger.py (configuration store, selectors, output name          *)
(* formatter, preview_merge and merge_pdfs).                               *)
(*                                                                         *)
(* Strings are sequences of one-character strings, so that lower(),        *)
(* endswith(), slicing, replace() and the path functions are computed as   *)
(* Python computes them.  The platform is POSIX (separator "/",            *)
(* case-sensitive glob).                                                   *)
(***************************************************************************)
EXTENDS Integers, Sequences, FiniteSets, TLC

VARIABLES
    mainKind,   \* what the path /r is: "dir", "file" or "absent"
    mainDir,    \* the entries of the directory /r (a set: os.listdir orders them arbitrarily)
    subDir,     \* name of a subdirectory of /r -> the entries of that subdirectory
    disk,       \* ~/.pdf_merger_config.json: "absent" or its text (a token sequence)
    configs,    \* instance id -> self.configs of that PDFMerger ("none": not constructed)
    pc,         \* "idle", or the loop a call is in: "merge", "preview"
    run,        \* the record of the last call: arguments, progress, outcome
    budget      \* calls the behaviour may still start

vars == <<mainKind, mainDir, subDir, disk, configs, pc, run, budget>>

(***************************************************************************)
(* Bounds of the model.                                                    *)
(***************************************************************************)
MaxSub == 2
MaxFiles == 2
MaxStems == 2
MaxClock == 1
MaxCalls == 1

(***************************************************************************)
(* Characters and strings.                                                 *)
(***************************************************************************)
Lower(c) ==
    CASE c = "A" -> "a"
      [] c = "B" -> "b"
      [] c = "D" -> "d"
      [] c = "F" -> "f"
      [] c = "P" -> "p"
      [] OTHER -> c

LowerStr(s) == [i \in 1..Len(s) |-> Lower(s[i])]

EndsWith(s, suf) ==
    /\ Len(s) >= Len(suf)
    /\ SubSeq(s, Len(s) - Len(suf) + 1, Len(s)) = suf

StartsWith(s, pre) ==
    /\ Len(s) >= Len(pre)
    /\ SubSeq(s, 1, Len(pre)) = pre

Drop(s, n) == SubSeq(s, n + 1, Len(s))

DotPdf == <<".", "p", "d", "f">>

RECURSIVE Replace(_, _, _)
Replace(s, old, new) ==
    IF Len(s) < Len(old) THEN s
    ELSE IF StartsWith(s, old) THEN new \o Replace(Drop(s, Len(old)), old, new)
    ELSE <<Head(s)>> \o Replace(Tail(s), old, new)

(***************************************************************************)
(* Paths (posixpath).                                                      *)
(***************************************************************************)
RECURSIVE LastSlash(_, _)
LastSlash(p, i) ==
    IF i = 0 THEN 0 ELSE IF p[i] = "/" THEN i ELSE LastSlash(p, i - 1)

Basename(p) == Drop(p, LastSlash(p, Len(p)))

Dirname(p) == SubSeq(p, 1, LastSlash(p, Len(p)) - 1)

PathJoin(a, b) ==
    IF StartsWith(b, <<"/">>) THEN b
    ELSE IF a = <<>> \/ EndsWith(a, <<"/">>) THEN a \o b
    ELSE a \o <<"/">> \o b

\* str.split("/"): the components between the separators, empty ones kept.
RECURSIVE SplitSlash(_, _, _)
SplitSlash(s, i, cur) ==
    IF i > Len(s) THEN <<cur>>
    ELSE IF s[i] = "/" THEN <<cur>> \o SplitSlash(s, i + 1, <<>>)
    ELSE SplitSlash(s, i + 1, Append(cur, s[i]))

\* '/'.join(comps)
RECURSIVE JoinSlash(_)
JoinSlash(comps) ==
    IF comps = <<>> THEN <<>>
    ELSE IF Len(comps) = 1 THEN comps[1]
    ELSE comps[1] \o <<"/">> \o JoinSlash(Tail(comps))

\* posixpath.normpath: the number of leading slashes it keeps (exactly two stay two).
InitialSlashes(p) ==
    IF ~StartsWith(p, <<"/">>) THEN 0
    ELSE IF StartsWith(p, <<"/", "/">>) /\ ~StartsWith(p, <<"/", "/", "/">>) THEN 2
    ELSE 1

RECURSIVE NormComps(_, _, _)
NormComps(comps, new, initial) ==
    IF comps = <<>> THEN new
    ELSE LET comp == Head(comps)
             rest == Tail(comps)
         IN  IF comp = <<>> \/ comp = <<".">> THEN NormComps(rest, new, initial)
             ELSE IF \/ comp # <<".", ".">>
                     \/ (initial = 0 /\ new = <<>>)
                     \/ (new # <<>> /\ new[Len(new)] = <<".", ".">>)
                  THEN NormComps(rest, Append(new, comp), initial)
             ELSE IF new # <<>> THEN NormComps(rest, SubSeq(new, 1, Len(new) - 1), initial)
             ELSE NormComps(rest, new, initial)

NormPath(p) ==
    IF p = <<>> THEN <<".">>
    ELSE LET initial == InitialSlashes(p)
             body == JoinSlash(NormComps(SplitSlash(p, 1, <<>>), <<>>, initial))
             path == [i \in 1..initial |-> "/"] \o body
         IN  IF path = <<>> THEN <<".">> ELSE path

\* os.getcwd() of the process.
Cwd == <<"/">>

AbsPath(p) == NormPath(IF StartsWith(p, <<"/">>) THEN p ELSE PathJoin(Cwd, p))

(***************************************************************************)
(* Output Name Formatter.                                                  *)
(***************************************************************************)
Digit(n) ==
    CASE n = 0 -> "0" [] n = 1 -> "1" [] n = 2 -> "2" [] n = 3 -> "3" [] n = 4 -> "4"
      [] n = 5 -> "5" [] n = 6 -> "6" [] n = 7 -> "7" [] n = 8 -> "8" [] n = 9 -> "9"

\* A reading of datetime.now(): t seconds after 2024-01-15 00:00:00, t < 10.
DateStr(t) == <<"2", "0", "2", "4", "-", "0", "1", "-", "1", "5">>
TimeStr(t) == <<"0", "0", "0", "0", "0", Digit(t)>>
DateTimeStr(t) == DateStr(t) \o <<"_">> \o TimeStr(t)

PhDirectory == <<"{", "d", "i", "r", "e", "c", "t", "o", "r", "y", "}">>
PhDate == <<"{", "d", "a", "t", "e", "}">>
PhTime == <<"{", "t", "i", "m", "e", "}">>
PhDateTime == <<"{", "d", "a", "t", "e", "t", "i", "m", "e", "}">>

\* A slip that tests the suffix as written ("endswith" without "lower").
format_output_filename_CaseSensitive(template, directory_name, t) ==
    LET f1 == Replace(template, PhDirectory, Basename(directory_name))
        f2 == Replace(f1, PhDate, DateStr(t))
        f3 == Replace(f2, PhTime, TimeStr(t))
        f4 == Replace(f3, PhDateTime, DateTimeStr(t))
    IN  IF ~EndsWith(f4, DotPdf) THEN f4 \o DotPdf ELSE f4

format_output_filename(template, directory_name, t) ==
    LET f1 == Replace(template, PhDirectory, Basename(directory_name))
        f2 == Replace(f1, PhDate, DateStr(t))
        f3 == Replace(f2, PhTime, TimeStr(t))
        f4 == Replace(f3, PhDateTime, DateTimeStr(t))
    IN  IF ~EndsWith(LowerStr(f4), DotPdf) THEN f4 \o DotPdf ELSE f4

(***************************************************************************)
(* Directory entries.  An entry of a listing is a record                   *)
(*   [name, kind, merged]: kind is "file" (regular file), "dir" or "link"  *)
(* (a symbolic link to a regular file); merged says that merge_pdf_files   *)
(* wrote the content.                                                      *)
(***************************************************************************)
IsFile(e) == e.kind \in {"file", "link"}
IsDir(e) == e.kind = "dir"

RECURSIVE SelectSeq2(_, _)
SelectSeq2(s, keep) ==
    IF s = <<>> THEN <<>>
    ELSE IF Head(s) \in keep THEN <<Head(s)>> \o SelectSeq2(Tail(s), keep)
    ELSE SelectSeq2(Tail(s), keep)

(***************************************************************************)
(* Natural Sort Comparator.                                                *)
(***************************************************************************)
\* ARABIC-INDIC DIGIT THREE, one character: str.isdigit() holds of it and int()
\* reads it as 3, but the class [0-9] of a str pattern does not contain it.
ArabicThree == "U+0663"

\* The characters of the model in code point order; Ord is order-isomorphic to ord().
Alphabet ==
    <<"*", "-", ".", "/", "0", "1", "2", "3", "4", "5", "6", "7", "8", "9", "?",
      "A", "B", "D", "F", "P", "_",
      "a", "b", "c", "d", "e", "f", "i", "l", "m", "o", "p", "q", "r", "s", "t", "x", "y",
      "{", "}", ArabicThree>>

Ord(c) == CHOOSE i \in 1..Len(Alphabet) : Alphabet[i] = c

IsDigit(c) == c \in {"0", "1", "2", "3", "4", "5", "6", "7", "8", "9"}

\* str.isdigit() of one character
StrIsDigit(c) == IsDigit(c) \/ c = ArabicThree

\* int() of one character
DigitVal(c) == IF c = ArabicThree THEN 3 ELSE Ord(c) - Ord("0")

RECURSIVE IntOf(_, _)
IntOf(s, acc) == IF s = <<>> THEN acc ELSE IntOf(Tail(s), 10 * acc + DigitVal(Head(s)))

\* re.split('([0-9]+)', text): texts and digit runs alternate, a text first and last.
RECURSIVE SplitDigits(_, _, _, _)
SplitDigits(s, i, cur, inDigits) ==
    IF i > Len(s) THEN (IF inDigits THEN <<cur, <<>>>> ELSE <<cur>>)
    ELSE IF IsDigit(s[i]) = inDigits THEN SplitDigits(s, i + 1, Append(cur, s[i]), inDigits)
    ELSE <<cur>> \o SplitDigits(s, i + 1, <<s[i]>>, ~inDigits)

\* str.isdigit() of a run of the split
IsDigitRun(c) == c # <<>> /\ \A i \in 1..Len(c) : StrIsDigit(c[i])

convert(c) ==
    IF IsDigitRun(c) THEN [num |-> TRUE, n |-> IntOf(c, 0), txt |-> <<>>]
    ELSE [num |-> FALSE, n |-> 0, txt |-> LowerStr(c)]

natural_sort_key(text) ==
    LET parts == SplitDigits(text, 1, <<>>, FALSE)
    IN  [i \in 1..Len(parts) |-> convert(parts[i])]

\* str < str
RECURSIVE StrLess(_, _)
StrLess(a, b) ==
    IF b = <<>> THEN FALSE
    ELSE IF a = <<>> THEN TRUE
    ELSE IF Head(a) # Head(b) THEN Ord(Head(a)) < Ord(Head(b))
    ELSE StrLess(Tail(a), Tail(b))

ElemLess(x, y) == IF x.num THEN x.n < y.n ELSE StrLess(x.txt, y.txt)

\* list < list on keys
RECURSIVE KeyLess(_, _)
KeyLess(k1, k2) ==
    IF k2 = <<>> THEN FALSE
    ELSE IF k1 = <<>> THEN TRUE
    ELSE IF Head(k1) # Head(k2) THEN ElemLess(Head(k1), Head(k2))
    ELSE KeyLess(Tail(k1), Tail(k2))

\* list < list on keys raises TypeError: the first elements that differ are an
\* int and a str.
RECURSIVE KeyLessRaises(_, _)
KeyLessRaises(k1, k2) ==
    IF k1 = <<>> \/ k2 = <<>> THEN FALSE
    ELSE IF Head(k1) # Head(k2) THEN Head(k1).num # Head(k2).num
    ELSE KeyLessRaises(Tail(k1), Tail(k2))

\* list.sort(key=natural_sort_key) raises: a sort that compares nothing but keys
\* has to compare two of them whose comparison raises, whenever there are two.
SortRaises(files) ==
    \E i, j \in 1..Len(files) :
        KeyLessRaises(natural_sort_key(files[i]), natural_sort_key(files[j]))

\* list.sort(key=natural_sort_key): stable
RECURSIVE InsertSorted(_, _)
InsertSorted(sorted, f) ==
    IF sorted = <<>> THEN <<f>>
    ELSE IF KeyLess(natural_sort_key(f), natural_sort_key(Head(sorted)))
         THEN <<f>> \o sorted
    ELSE <<Head(sorted)>> \o InsertSorted(Tail(sorted), f)

RECURSIVE NaturalSort(_)
NaturalSort(files) ==
    IF files = <<>> THEN <<>>
    ELSE InsertSorted(NaturalSort(SubSeq(files, 1, Len(files) - 1)), files[Len(files)])

(***************************************************************************)
(* Pattern-Based Selector.                                                 *)
(***************************************************************************)
\* fnmatch.fnmatchcase for patterns of literals, "*" and "?"
RECURSIVE FnMatch(_, _)
FnMatch(pat, name) ==
    IF pat = <<>> THEN name = <<>>
    ELSE IF Head(pat) = "*"
         THEN FnMatch(Tail(pat), name) \/ (name # <<>> /\ FnMatch(pat, Tail(name)))
    ELSE IF name = <<>> THEN FALSE
    ELSE IF Head(pat) = "?" THEN FnMatch(Tail(pat), Tail(name))
    ELSE Head(pat) = Head(name) /\ FnMatch(Tail(pat), Tail(name))

HasMagic(pat) == \E i \in 1..Len(pat) : pat[i] \in {"*", "?"}

\* glob.glob(os.path.join(directory, pattern)) for a listing of the directory
GlobNames(listing, pattern) ==
    LET hit(e) ==
            IF HasMagic(pattern)
            THEN /\ FnMatch(pattern, e.name)
                 /\ (StartsWith(e.name, <<".">>) => StartsWith(pattern, <<".">>))
            ELSE e.name = pattern
    IN  SelectSeq2(listing, {listing[i] : i \in {j \in 1..Len(listing) : hit(listing[j])}})

\* A slip that leaves out what an earlier merge wrote.
get_matching_files_SkipMerged(directory, listing, pattern) ==
    LET globbed == GlobNames(listing, pattern)
        files == NaturalSort([i \in 1..Len(globbed) |-> PathJoin(directory, globbed[i].name)])
        regular == {PathJoin(directory, listing[i].name) :
                        i \in {j \in 1..Len(listing) :
                                  IsFile(listing[j]) /\ listing[j].content # "merged"}}
    IN  SelectSeq2(files, regular)

get_matching_files(directory, listing, pattern) ==
    LET globbed == GlobNames(listing, pattern)
        files == NaturalSort([i \in 1..Len(globbed) |-> PathJoin(directory, globbed[i].name)])
        regular == {PathJoin(directory, listing[i].name) :
                        i \in {j \in 1..Len(listing) : IsFile(listing[j])}}
    IN  SelectSeq2(files, regular)

\* get_matching_files raises: the sort did, caught and raised again as Exception.
get_matching_files_raises(directory, listing, pattern) ==
    LET globbed == GlobNames(listing, pattern)
    IN  SortRaises([i \in 1..Len(globbed) |-> PathJoin(directory, globbed[i].name)])

(***************************************************************************)
(* Config-Based Selector.                                                  *)
(***************************************************************************)
\* A slip that drops the comparison with the stem: any listed file resolves it.
FirstMatch_AnyPdf(all_files, filename) ==
    IF all_files = <<>> THEN <<>> ELSE Head(all_files)

\* A slip that compares the stem as written, letter case included.
RECURSIVE FirstMatch_CaseSensitive(_, _)
FirstMatch_CaseSensitive(all_files, filename) ==
    IF all_files = <<>> THEN <<>>
    ELSE LET basename == Basename(Head(all_files))
         IN  IF /\ EndsWith(LowerStr(basename), DotPdf)
                /\ SubSeq(basename, 1, Len(basename) - 4) = filename
             THEN Head(all_files)
             ELSE FirstMatch_CaseSensitive(Tail(all_files), filename)

\* The first file of all_files whose name without its last four characters is
\* filename, letter case ignored; <<>> for None.
RECURSIVE FirstMatch(_, _)
FirstMatch(all_files, filename) ==
    IF all_files = <<>> THEN <<>>
    ELSE LET basename == Basename(Head(all_files))
         IN  IF /\ EndsWith(LowerStr(basename), DotPdf)
                /\ LowerStr(SubSeq(basename, 1, Len(basename) - 4)) = LowerStr(filename)
             THEN Head(all_files)
             ELSE FirstMatch(Tail(all_files), filename)

\* all_found = len(missing_files) == 0
AllFound(missing_files) == Len(missing_files) = 0

\* A slip that stops at the first stem without a file ("break" in the else branch).
find_merge_config_files_StopAtMissing(directory, listing, merge_order) ==
    LET keep == {i \in 1..Len(listing) :
                    IsFile(listing[i]) /\ EndsWith(LowerStr(listing[i].name), DotPdf)}
        kept == SelectSeq2(listing, {listing[i] : i \in keep})
        all_files == [i \in 1..Len(kept) |-> PathJoin(directory, kept[i].name)]
        absent == {i \in 1..Len(merge_order) : FirstMatch(all_files, merge_order[i]) = <<>>}
        stop == IF absent = {} THEN Len(merge_order)
                ELSE CHOOSE i \in absent : \A j \in absent : i <= j
        found == (1..stop) \ absent
    IN  [all_found |-> absent = {},
         merge_files |-> [f \in {merge_order[i] : i \in found} |-> <<FirstMatch(all_files, f)>>],
         missing |-> IF absent = {} THEN <<>> ELSE <<merge_order[stop]>>]

\* A slip that starts missing_files anew for each stem, so only the last counts.
find_merge_config_files_ResetMissing(directory, listing, merge_order) ==
    LET keep == {i \in 1..Len(listing) :
                    IsFile(listing[i]) /\ EndsWith(LowerStr(listing[i].name), DotPdf)}
        kept == SelectSeq2(listing, {listing[i] : i \in keep})
        all_files == [i \in 1..Len(kept) |-> PathJoin(directory, kept[i].name)]
        found == {i \in 1..Len(merge_order) : FirstMatch(all_files, merge_order[i]) # <<>>}
        missing_files == IF merge_order = <<>> \/ Len(merge_order) \in found
                         THEN <<>> ELSE <<merge_order[Len(merge_order)]>>
    IN  [all_found |-> AllFound(missing_files),
         merge_files |-> [f \in {merge_order[i] : i \in found} |-> <<FirstMatch(all_files, f)>>],
         missing |-> missing_files]

find_merge_config_files(directory, listing, merge_order) ==
    LET keep == {i \in 1..Len(listing) :
                    IsFile(listing[i]) /\ EndsWith(LowerStr(listing[i].name), DotPdf)}
        kept == SelectSeq2(listing, {listing[i] : i \in keep})
        all_files == [i \in 1..Len(kept) |-> PathJoin(directory, kept[i].name)]
        found == {i \in 1..Len(merge_order) : FirstMatch(all_files, merge_order[i]) # <<>>}
        merge_files == [f \in {merge_order[i] : i \in found} |-> <<FirstMatch(all_files, f)>>]
        missing_files == SelectSeq2(merge_order,
                                    {merge_order[i] : i \in (1..Len(merge_order)) \ found})
    IN  [all_found |-> AllFound(missing_files),
         merge_files |-> merge_files,
         missing |-> missing_files]

\* A slip that walks the merge order from its end.
RECURSIVE get_ordered_merge_files_Reversed(_, _)
get_ordered_merge_files_Reversed(merge_files_dict, merge_order) ==
    IF merge_order = <<>> THEN <<>>
    ELSE get_ordered_merge_files_Reversed(merge_files_dict, Tail(merge_order))
         \o (IF Head(merge_order) \in DOMAIN merge_files_dict
             THEN merge_files_dict[Head(merge_order)] ELSE <<>>)

\* A slip that takes the file of a stem once, however often the stem occurs.
RECURSIVE get_ordered_merge_files_Once(_, _)
get_ordered_merge_files_Once(merge_files_dict, merge_order) ==
    IF merge_order = <<>> THEN <<>>
    ELSE (IF Head(merge_order) \in DOMAIN merge_files_dict
          THEN merge_files_dict[Head(merge_order)] ELSE <<>>)
         \o get_ordered_merge_files_Once(merge_files_dict,
                SelectSeq2(Tail(merge_order), {f \in DOMAIN merge_files_dict : f # Head(merge_order)}))

RECURSIVE get_ordered_merge_files(_, _)
get_ordered_merge_files(merge_files_dict, merge_order) ==
    IF merge_order = <<>> THEN <<>>
    ELSE (IF Head(merge_order) \in DOMAIN merge_files_dict
          THEN merge_files_dict[Head(merge_order)] ELSE <<>>)
         \o get_ordered_merge_files(merge_files_dict, Tail(merge_order))

(***************************************************************************)
(* Configuration Store.  A Python dict is a sequence of [k, v] pairs with  *)
(* distinct keys, in insertion order.  An optional value is                *)
(* [some |-> FALSE, val |-> <<>>] for None.                                *)
(***************************************************************************)
None == [some |-> FALSE, val |-> <<>>]
Some(v) == [some |-> TRUE, val |-> v]

DictKeys(d) == {d[i].k : i \in 1..Len(d)}

\* d.get(k)
DictGet(d, k) ==
    IF k \in DictKeys(d)
    THEN Some(d[CHOOSE i \in 1..Len(d) : d[i].k = k].v)
    ELSE None

\* d[k] = v
DictSet(d, k, v) ==
    IF k \in DictKeys(d)
    THEN [i \in 1..Len(d) |-> IF d[i].k = k THEN [k |-> k, v |-> v] ELSE d[i]]
    ELSE Append(d, [k |-> k, v |-> v])

\* A slip that empties the mapping (d.clear()).
DictDel_Clear(d, k) == <<>>

\* del d[k]
DictDel(d, k) == SelectSeq2(d, {d[i] : i \in {j \in 1..Len(d) : d[j].k # k}})

\* JSON text as a sequence of tokens: punctuation, or a string with its characters.
Tok(t) == [t |-> t, s |-> <<>>]
StrTok(s) == [t |-> "str", s |-> s]

RECURSIVE DumpItems(_)
DumpItems(v) ==
    IF v = <<>> THEN <<>>
    ELSE IF Len(v) = 1 THEN <<StrTok(v[1])>>
    ELSE <<StrTok(v[1]), Tok(",")>> \o DumpItems(Tail(v))

DumpPair(kv) == <<StrTok(kv.k), Tok(":"), Tok("[")>> \o DumpItems(kv.v) \o <<Tok("]")>>

RECURSIVE DumpPairs(_)
DumpPairs(d) ==
    IF d = <<>> THEN <<>>
    ELSE IF Len(d) = 1 THEN DumpPair(d[1])
    ELSE DumpPair(d[1]) \o <<Tok(",")>> \o DumpPairs(Tail(d))

\* json.dump(self.configs, f, indent=2)
JsonDump(d) == <<Tok("{")>> \o DumpPairs(d) \o <<Tok("}")>>

\* json.load: a recursive descent over the tokens.  Each parser returns
\* [ok, val, next]: whether it accepted, what it read, the index after it.
IsTok(text, i, t) == i <= Len(text) /\ text[i].t = t

RECURSIVE ParseItems(_, _, _)
ParseItems(text, i, acc) ==
    IF ~IsTok(text, i, "str") THEN [ok |-> FALSE, val |-> <<>>, next |-> i]
    ELSE IF IsTok(text, i + 1, ",") THEN ParseItems(text, i + 2, Append(acc, text[i].s))
    ELSE IF IsTok(text, i + 1, "]")
         THEN [ok |-> TRUE, val |-> Append(acc, text[i].s), next |-> i + 2]
    ELSE [ok |-> FALSE, val |-> <<>>, next |-> i]

ParseArray(text, i) ==
    IF ~IsTok(text, i, "[") THEN [ok |-> FALSE, val |-> <<>>, next |-> i]
    ELSE IF IsTok(text, i + 1, "]") THEN [ok |-> TRUE, val |-> <<>>, next |-> i + 2]
    ELSE ParseItems(text, i + 1, <<>>)

RECURSIVE ParsePairs(_, _, _)
ParsePairs(text, i, acc) ==
    IF ~(IsTok(text, i, "str") /\ IsTok(text, i + 1, ":"))
    THEN [ok |-> FALSE, val |-> <<>>, next |-> i]
    ELSE LET arr == ParseArray(text, i + 2)
             d == DictSet(acc, text[i].s, arr.val)
         IN  IF ~arr.ok THEN [ok |-> FALSE, val |-> <<>>, next |-> i]
             ELSE IF IsTok(text, arr.next, ",") THEN ParsePairs(text, arr.next + 1, d)
             ELSE IF IsTok(text, arr.next, "}")
                  THEN [ok |-> TRUE, val |-> d, next |-> arr.next + 1]
             ELSE [ok |-> FALSE, val |-> <<>>, next |-> i]

JsonLoad(text) ==
    LET r == IF ~IsTok(text, 1, "{") THEN [ok |-> FALSE, val |-> <<>>, next |-> 1]
             ELSE IF IsTok(text, 2, "}") THEN [ok |-> TRUE, val |-> <<>>, next |-> 3]
             ELSE ParsePairs(text, 2, <<>>)
    IN  IF r.ok /\ r.next = Len(text) + 1 THEN r ELSE [ok |-> FALSE, val |-> <<>>, next |-> 1]

NoFile == [exists |-> FALSE, text |-> <<>>]
FileOf(text) == [exists |-> TRUE, text |-> text]

\* PDFMerger.load_configs on the file f
load_configs(f) ==
    IF f.exists
    THEN (IF JsonLoad(f.text).ok THEN JsonLoad(f.text).val ELSE <<>>)
    ELSE <<>>

\* A slip that leaves the configuration file as it is.
save_configs_Skip(d, f, outcome, cut) == [file |-> f, raised |-> ""]

RECURSIVE DictUpdate(_, _)
DictUpdate(d, e) == IF e = <<>> THEN d ELSE DictUpdate(DictSet(d, Head(e).k, Head(e).v), Tail(e))

\* A slip that updates the mapping found in the file instead of replacing it.
save_configs_Merge(d, f, outcome, cut) ==
    IF outcome = "open_error" THEN [file |-> f, raised |-> "save_error"]
    ELSE IF outcome = "write_error"
         THEN [file |-> FileOf(SubSeq(JsonDump(d), 1, cut)), raised |-> "save_error"]
    ELSE [file |-> FileOf(JsonDump(DictUpdate(load_configs(f), d))), raised |-> ""]

\* A slip that catches the failure and does not raise it again.
save_configs_Swallow(d, f, outcome, cut) ==
    IF outcome = "open_error" THEN [file |-> f, raised |-> ""]
    ELSE IF outcome = "write_error"
         THEN [file |-> FileOf(SubSeq(JsonDump(d), 1, cut)), raised |-> ""]
    ELSE [file |-> FileOf(JsonDump(d)), raised |-> ""]

\* PDFMerger.save_configs on the mapping d and the file f.  open(..., 'w') fails
\* and leaves the file, or truncates it; json.dump then writes the whole text, or
\* fails after the first cut tokens.
save_configs(d, f, outcome, cut) ==
    IF outcome = "open_error" THEN [file |-> f, raised |-> "save_error"]
    ELSE IF outcome = "write_error"
         THEN [file |-> FileOf(SubSeq(JsonDump(d), 1, cut)), raised |-> "save_error"]
    ELSE [file |-> FileOf(JsonDump(d)), raised |-> ""]

\* A slip that takes the path as written for the key.
SetKey_Raw(root_directory) == root_directory

\* normalized_path of set_merge_config
SetKey(root_directory) == AbsPath(root_directory)

\* PDFMerger.get_merge_config on the mapping d
get_merge_config(d, root_directory) == DictGet(d, AbsPath(root_directory))

\* PDFMerger.get_all_configs on the mapping d: a copy
get_all_configs(d) == [i \in 1..Len(d) |-> d[i]]

(***************************************************************************)
(* The file system under the main directory /r and the inputs of the       *)
(* calls.                                                                  *)
(***************************************************************************)
RootDir == <<"/", "r">>

\* Spellings of the main directory a caller passes.
MainArgs == {<<"r", "/">>}

AllSubNames == <<<<"p">>, <<"q">>, <<"s">>>>
SubNames == {AllSubNames[i] : i \in 1..MaxSub}

AllFileNames == <<<<"a", ".", "p", "d", "f">>, <<"b", ".", "p", "d", "f">>,
                  <<"A", ".", "P", "D", "F">>>>
FileNames == {AllFileNames[i] : i \in 1..MaxFiles}

AllStems == <<<<"a">>, <<"b">>, <<"A">>>>
Stems == {AllStems[i] : i \in 1..MaxStems}

Patterns == {<<"*", ".", "p", "d", "f">>}

Templates == {<<"a">>, PhDirectory \o <<"_">> \o PhTime}

Times == 0..MaxClock

SeqsUpTo(S, n) == UNION {[1..k -> S] : k \in 0..n}

DistinctNames(l) == \A i, j \in 1..Len(l) : i # j => l[i].name # l[j].name

Entry(name, kind, content) == [name |-> name, kind |-> kind, content |-> content]

DistinctEntries(S) == \A e, f \in S : e.name = f.name => e = f

\* Contents of a subdirectory: regular files a user put there.
SubContents == SUBSET {Entry(n, "file", "user") : n \in FileNames}

\* Contents of the main directory: subdirectories, and a regular file.
MainContents ==
    {S \in SUBSET ({Entry(n, "dir", "user") : n \in SubNames}
                    \cup {Entry(AllSubNames[MaxSub], "file", "user")}) : DistinctEntries(S)}

\* The results os.listdir may return for a directory holding the entries S.
Listdir(S) == {l \in [1..Cardinality(S) -> S] : DistinctNames(l)}

\* Merge orders a configuration file may hold.
Orders == SeqsUpTo(Stems, MaxStems)

HasEntry(S, name) == \E e \in S : e.name = name

EntryOf(S, name) == CHOOSE e \in S : e.name = name

\* os.path.exists(main_directory)
MainExists(kind, main_directory) == AbsPath(main_directory) = RootDir /\ kind # "absent"

\* A slip that lets os.listdir succeed on anything that exists.
MainListable_AnyKind(kind, main_directory) == AbsPath(main_directory) = RootDir /\ kind # "absent"

\* os.listdir(main_directory) succeeds
MainListable(kind, main_directory) == AbsPath(main_directory) = RootDir /\ kind = "dir"

\* PDFMerger.get_subdirectories, given os.listdir(main_directory)
get_subdirectories(main_directory, listing) ==
    LET dirs == SelectSeq2(listing, {listing[i] : i \in {j \in 1..Len(listing) : IsDir(listing[j])}})
    IN  [i \in 1..Len(dirs) |-> PathJoin(main_directory, dirs[i].name)]

\* open(output_path, 'wb') and write: the entries of the directory afterwards.
WriteFile(S, name, content) ==
    IF HasEntry(S, name)
    THEN (S \ {EntryOf(S, name)}) \cup {Entry(name, EntryOf(S, name).kind, content)}
    ELSE S \cup {Entry(name, "file", content)}

(***************************************************************************)
(* The record of a call.                                                   *)
(***************************************************************************)
Msg(m, s, n, l) == [m |-> m, s |-> s, n |-> n, l |-> l]

LogIf(cb, log, msgs) == IF cb THEN log \o msgs ELSE log

EmptyRun ==
    [op |-> "none",         \* "merge", "preview", "set", "get", "delete", "new"
     inst |-> 0,            \* the instance called
     main |-> <<>>,         \* main_directory / root_directory
     pattern |-> <<>>,      \* file_pattern
     template |-> <<>>,     \* output_format
     use_cfg |-> FALSE,     \* use_merge_config
     cb |-> FALSE,          \* whether a progress_callback is given
     order |-> <<>>,        \* merge_order argument of set_merge_config
     subdirs |-> <<>>,      \* get_subdirectories(main_directory)
     i |-> 0,               \* the loop index
     evals |-> <<>>,        \* per subdirectory evaluated: what the selector returned
     calls |-> <<>>,        \* merge_pdf_files calls: subdirectory, file_list, output_path, outcome
     results |-> <<>>,      \* merge_pdfs: results
     preview |-> <<>>,      \* preview_merge: preview_data
     log |-> <<>>,          \* the messages passed to progress_callback
     ret |-> None,          \* get_merge_config: the value returned
     raised |-> "",         \* the exception that left the call, "" for none
     done |-> FALSE,        \* the call returned or raised
     fs0 |-> [n \in SubNames |-> {}],   \* subDir when the call began
     main0 |-> [kind |-> "absent", dir |-> {}],             \* mainKind and mainDir then
     store0 |-> [disk |-> NoFile, configs |-> <<>>],       \* disk and configs then
     prev |-> [op |-> "none", use_cfg |-> FALSE, calls |-> <<>>]]   \* the call before: its codec calls

Raise(r, what) == [r EXCEPT !.raised = what, !.done = TRUE]

(***************************************************************************)
(* merge_pdfs.  MergeBegin is the part before the loop, MergeSubdir one    *)
(* iteration of the loop, MergeReturn the return.  No other call starts    *)
(* while pc # "idle": the engine is single-threaded.                       *)
(***************************************************************************)
\* A slip that rejects the empty list only ("== []" for "not").
NotSet_EmptyOnly(merge_order) == merge_order.some /\ merge_order.val = <<>>

\* A slip that rejects None only ("is None" for "not").
NotSet_NoneOnly(merge_order) == ~merge_order.some

\* "not merge_order": None or an empty list
NotSet(merge_order) == ~merge_order.some \/ merge_order.val = <<>>

\* merge_pdfs up to its loop: the call as it stands when the loop is reached, or
\* over with an error.
MergeStart(inst, main_directory, file_pattern, output_format, cb, use_merge_config, listing) ==
    LET r0 == [EmptyRun EXCEPT !.op = "merge", !.inst = inst, !.main = main_directory,
                               !.pattern = file_pattern, !.template = output_format,
                               !.cb = cb, !.use_cfg = use_merge_config, !.fs0 = subDir,
                               !.prev = [op |-> run.op, use_cfg |-> run.use_cfg, calls |-> run.calls],
                               !.main0 = [kind |-> mainKind, dir |-> mainDir],
                               !.store0 = [disk |-> disk, configs |-> configs]]
        subdirs == get_subdirectories(main_directory, listing)
    IN  IF ~MainExists(mainKind, main_directory)
        THEN Raise(r0, "not_exist")
        ELSE IF use_merge_config /\ NotSet(get_merge_config(configs[inst].map, main_directory))
        THEN Raise(r0, "config_required")
        ELSE IF ~MainListable(mainKind, main_directory)
        THEN Raise(r0, "read_error")
        ELSE [r0 EXCEPT !.subdirs = subdirs, !.i = 1,
                        !.log = LogIf(cb, <<>>, <<Msg("found_subdirs", <<>>, Len(subdirs), <<>>)>>)]

MergeBegin(inst, main_directory, file_pattern, output_format, cb, use_merge_config, listing) ==
    /\ pc = "idle"
    /\ budget > 0
    /\ configs[inst].live
    /\ budget' = budget - 1
    /\ \E r \in {MergeStart(inst, main_directory, file_pattern, output_format, cb,
                             use_merge_config, listing)} :
          /\ run' = r
          /\ pc' = IF r.raised # "" THEN "idle" ELSE "merge"
    /\ UNCHANGED <<mainKind, mainDir, subDir, disk, configs>>

\* The outcome of merge_pdf_files(file_list, output_path) in a directory with the
\* given listing: "ok", or the step that failed.  Opening a directory for writing
\* fails whatever the codec would have done.
CodecOutcome(S, output_filename, outcome) ==
    IF outcome = "read_error" THEN "read_error"
    ELSE IF HasEntry(S, output_filename) /\ IsDir(EntryOf(S, output_filename))
    THEN "open_error"
    ELSE outcome

\* The entries of the directory after merge_pdf_files ended with the given outcome.
AfterCodec(S, output_filename, outcome) ==
    CASE outcome = "ok" -> WriteFile(S, output_filename, "merged")
      [] outcome = "write_error" -> WriteFile(S, output_filename, "partial")
      [] OTHER -> S

\* A slip that appends output_path to results before merge_pdf_files is called.
MergeTry_AppendFirst(r, subdir, S, matching_files, t, outcome) ==
    LET subdir_name == Basename(subdir)
        output_filename == format_output_filename(r.template, subdir, t)
        output_path == PathJoin(subdir, output_filename)
        warn == IF HasEntry(S, output_filename)
                THEN <<Msg("warn_overwrite", output_filename, 0, <<>>)>> ELSE <<>>
        result == CodecOutcome(S, output_filename, outcome)
        call == [subdir |-> subdir, files |-> matching_files, out |-> output_path,
                 outcome |-> result, at |-> Len(LogIf(r.cb, r.log, warn))]
    IN  [run |-> IF result = "ok"
                 THEN [r EXCEPT !.calls = Append(@, call),
                                !.results = Append(@, output_path),
                                !.log = LogIf(r.cb, @, warn \o <<Msg("created", output_filename, 0, <<>>)>>)]
                 ELSE [r EXCEPT !.calls = Append(@, call),
                                !.results = Append(@, output_path),
                                !.log = LogIf(r.cb, @, warn \o <<Msg("error", subdir_name, 0, <<>>)>>)],
         dir |-> AfterCodec(S, output_filename, result)]

\* A slip that puts each new output path at the front of results.
MergeTry_Prepend(r, subdir, S, matching_files, t, outcome) ==
    LET subdir_name == Basename(subdir)
        output_filename == format_output_filename(r.template, subdir, t)
        output_path == PathJoin(subdir, output_filename)
        warn == IF HasEntry(S, output_filename)
                THEN <<Msg("warn_overwrite", output_filename, 0, <<>>)>> ELSE <<>>
        result == CodecOutcome(S, output_filename, outcome)
        call == [subdir |-> subdir, files |-> matching_files, out |-> output_path,
                 outcome |-> result, at |-> Len(LogIf(r.cb, r.log, warn))]
    IN  [run |-> IF result = "ok"
                 THEN [r EXCEPT !.calls = Append(@, call),
                                !.results = <<output_path>> \o @,
                                !.log = LogIf(r.cb, @, warn \o <<Msg("created", output_filename, 0, <<>>)>>)]
                 ELSE [r EXCEPT !.calls = Append(@, call),
                                !.log = LogIf(r.cb, @, warn \o <<Msg("error", subdir_name, 0, <<>>)>>)],
         dir |-> AfterCodec(S, output_filename, result)]

\* A slip that put results.append under "if progress_callback".
MergeTry_AppendInCallback(r, subdir, S, matching_files, t, outcome) ==
    LET subdir_name == Basename(subdir)
        output_filename == format_output_filename(r.template, subdir, t)
        output_path == PathJoin(subdir, output_filename)
        warn == IF HasEntry(S, output_filename)
                THEN <<Msg("warn_overwrite", output_filename, 0, <<>>)>> ELSE <<>>
        result == CodecOutcome(S, output_filename, outcome)
        call == [subdir |-> subdir, files |-> matching_files, out |-> output_path,
                 outcome |-> result, at |-> Len(LogIf(r.cb, r.log, warn))]
    IN  [run |-> IF result = "ok"
                 THEN [r EXCEPT !.calls = Append(@, call),
                                !.results = IF r.cb THEN Append(@, output_path) ELSE @,
                                !.log = LogIf(r.cb, @, warn \o <<Msg("created", output_filename, 0, <<>>)>>)]
                 ELSE [r EXCEPT !.calls = Append(@, call),
                                !.log = LogIf(r.cb, @, warn \o <<Msg("error", subdir_name, 0, <<>>)>>)],
         dir |-> AfterCodec(S, output_filename, result)]

\* A slip that tests os.path.exists(output_path) after merge_pdf_files returned.
MergeTry_WarnAfter(r, subdir, S, matching_files, t, outcome) ==
    LET subdir_name == Basename(subdir)
        output_filename == format_output_filename(r.template, subdir, t)
        output_path == PathJoin(subdir, output_filename)
        result == CodecOutcome(S, output_filename, outcome)
        after == AfterCodec(S, output_filename, result)
        warn == IF HasEntry(after, output_filename)
                THEN <<Msg("warn_overwrite", output_filename, 0, <<>>)>> ELSE <<>>
        call == [subdir |-> subdir, files |-> matching_files, out |-> output_path,
                 outcome |-> result, at |-> Len(r.log)]
    IN  [run |-> IF result = "ok"
                 THEN [r EXCEPT !.calls = Append(@, call),
                                !.results = Append(@, output_path),
                                !.log = LogIf(r.cb, @, warn \o <<Msg("created", output_filename, 0, <<>>)>>)]
                 ELSE [r EXCEPT !.calls = Append(@, call),
                                !.log = LogIf(r.cb, @, <<Msg("error", subdir_name, 0, <<>>)>>)],
         dir |-> after]

\* The body of the try block of the loop, for the selected matching_files.  A
\* codec call records in "at" how many messages the sink had received before it.
MergeTry(r, subdir, S, matching_files, t, outcome) ==
    LET subdir_name == Basename(subdir)
        output_filename == format_output_filename(r.template, subdir, t)
        output_path == PathJoin(subdir, output_filename)
        warn == IF HasEntry(S, output_filename)
                THEN <<Msg("warn_overwrite", output_filename, 0, <<>>)>> ELSE <<>>
        result == CodecOutcome(S, output_filename, outcome)
        call == [subdir |-> subdir, files |-> matching_files, out |-> output_path,
                 outcome |-> result, at |-> Len(LogIf(r.cb, r.log, warn))]
    IN  [run |-> IF result = "ok"
                 THEN [r EXCEPT !.calls = Append(@, call),
                                !.results = Append(@, output_path),
                                !.log = LogIf(r.cb, @, warn \o <<Msg("created", output_filename, 0, <<>>)>>)]
                 ELSE [r EXCEPT !.calls = Append(@, call),
                                !.log = LogIf(r.cb, @, warn \o <<Msg("error", subdir_name, 0, <<>>)>>)],
         dir |-> AfterCodec(S, output_filename, result)]

\* A slip that lost the test for an empty selection: the codec is called anyway.
MergeIteration_NoSkip(r, merge_order, S, listing, t, outcome) ==
    LET subdir == r.subdirs[r.i]
        subdir_name == Basename(subdir)
        r1 == [r EXCEPT !.i = @ + 1,
                        !.log = LogIf(r.cb, @, <<Msg("processing", subdir_name, r.i, <<>>)>>)]
        found == find_merge_config_files(subdir, listing, merge_order)
        ordered == get_ordered_merge_files(found.merge_files, merge_order)
        matching_files == IF r.use_cfg THEN ordered
                          ELSE get_matching_files(subdir, listing, r.pattern)
        skipped == r.use_cfg /\ ~found.all_found
        eval == [subdir |-> subdir, listing |-> listing,
                 files |-> IF skipped THEN <<>> ELSE matching_files,
                 missing |-> IF r.use_cfg THEN found.missing ELSE <<>>]
        r2 == [r1 EXCEPT !.evals = Append(@, eval),
                         !.log = IF r.use_cfg
                                 THEN LogIf(r.cb, @, <<Msg("using_config", <<>>, 0, merge_order)>>)
                                 ELSE @]
    IN  IF ~r.use_cfg /\ get_matching_files_raises(subdir, listing, r.pattern)
        THEN [run |-> Raise(r1, "find_error"), dir |-> S]
        ELSE IF skipped
        THEN [run |-> [r2 EXCEPT !.log = LogIf(r.cb, @, <<Msg("missing", <<>>, 0, found.missing),
                                                          Msg("skipping", subdir_name, 0, <<>>)>>)],
              dir |-> S]
        ELSE LET r3 == [r2 EXCEPT !.log =
                            IF r.use_cfg
                            THEN LogIf(r.cb, @, <<Msg("all_found", <<>>, 0, <<>>)>>
                                    \o [k \in 1..Len(merge_order) |->
                                          Msg("component", merge_order[k],
                                              Len(found.merge_files[merge_order[k]]), <<>>)])
                            ELSE @]
             IN  IF FALSE
                 THEN [run |-> [r3 EXCEPT !.log = LogIf(r.cb, @, <<Msg("no_files", subdir_name, 0, <<>>)>>)],
                       dir |-> S]
                 ELSE MergeTry([r3 EXCEPT !.log =
                                    IF ~r.use_cfg
                                    THEN LogIf(r.cb, @, <<Msg("found_files", <<>>, Len(matching_files), <<>>)>>)
                                    ELSE @],
                               subdir, S, matching_files, t, outcome)

\* One iteration of the loop of merge_pdfs, on the subdirectory holding the entries S
\* that os.listdir and glob list in the order of listing.
MergeIteration(r, merge_order, S, listing, t, outcome) ==
    LET subdir == r.subdirs[r.i]
        subdir_name == Basename(subdir)
        r1 == [r EXCEPT !.i = @ + 1,
                        !.log = LogIf(r.cb, @, <<Msg("processing", subdir_name, r.i, <<>>)>>)]
        found == find_merge_config_files(subdir, listing, merge_order)
        ordered == get_ordered_merge_files(found.merge_files, merge_order)
        matching_files == IF r.use_cfg THEN ordered
                          ELSE get_matching_files(subdir, listing, r.pattern)
        skipped == r.use_cfg /\ ~found.all_found
        eval == [subdir |-> subdir, listing |-> listing,
                 files |-> IF skipped THEN <<>> ELSE matching_files,
                 missing |-> IF r.use_cfg THEN found.missing ELSE <<>>]
        r2 == [r1 EXCEPT !.evals = Append(@, eval),
                         !.log = IF r.use_cfg
                                 THEN LogIf(r.cb, @, <<Msg("using_config", <<>>, 0, merge_order)>>)
                                 ELSE @]
    IN  IF ~r.use_cfg /\ get_matching_files_raises(subdir, listing, r.pattern)
        THEN [run |-> Raise(r1, "find_error"), dir |-> S]
        ELSE IF skipped
        THEN [run |-> [r2 EXCEPT !.log = LogIf(r.cb, @, <<Msg("missing", <<>>, 0, found.missing),
                                                          Msg("skipping", subdir_name, 0, <<>>)>>)],
              dir |-> S]
        ELSE LET r3 == [r2 EXCEPT !.log =
                            IF r.use_cfg
                            THEN LogIf(r.cb, @, <<Msg("all_found", <<>>, 0, <<>>)>>
                                    \o [k \in 1..Len(merge_order) |->
                                          Msg("component", merge_order[k],
                                              Len(found.merge_files[merge_order[k]]), <<>>)])
                            ELSE @]
             IN  IF matching_files = <<>>
                 THEN [run |-> [r3 EXCEPT !.log = LogIf(r.cb, @, <<Msg("no_files", subdir_name, 0, <<>>)>>)],
                       dir |-> S]
                 ELSE MergeTry([r3 EXCEPT !.log =
                                    IF ~r.use_cfg
                                    THEN LogIf(r.cb, @, <<Msg("found_files", <<>>, Len(matching_files), <<>>)>>)
                                    ELSE @],
                               subdir, S, matching_files, t, outcome)

MergeSubdir(t, outcome) ==
    /\ pc = "merge"
    /\ run.i <= Len(run.subdirs)
    /\ LET name == Basename(run.subdirs[run.i])
           merge_order == get_merge_config(configs[run.inst].map, run.main).val
       IN  \E listing \in Listdir(subDir[name]) :
              \E step \in {MergeIteration(run, merge_order, subDir[name], listing, t, outcome)} :
                  /\ run' = step.run
                  /\ subDir' = [subDir EXCEPT ![name] = step.dir]
                  /\ pc' = IF step.run.raised # "" THEN "idle" ELSE pc
    /\ UNCHANGED <<mainKind, mainDir, disk, configs, budget>>

MergeReturn ==
    /\ pc = "merge"
    /\ run.i > Len(run.subdirs)
    /\ run' = [run EXCEPT !.done = TRUE]
    /\ pc' = "idle"
    /\ UNCHANGED <<mainKind, mainDir, subDir, disk, configs, budget>>

(***************************************************************************)
(* preview_merge, in the same three parts.                                 *)
(***************************************************************************)
PreviewBegin(inst, main_directory, file_pattern, output_format, use_merge_config, listing) ==
    /\ pc = "idle"
    /\ budget > 0
    /\ configs[inst].live
    /\ budget' = budget - 1
    /\ LET r0 == [EmptyRun EXCEPT !.op = "preview", !.inst = inst, !.main = main_directory,
                                  !.pattern = file_pattern, !.template = output_format,
                                  !.use_cfg = use_merge_config, !.fs0 = subDir,
                                  !.prev = [op |-> run.op, use_cfg |-> run.use_cfg,
                                            calls |-> run.calls],
                                  !.main0 = [kind |-> mainKind, dir |-> mainDir],
                                  !.store0 = [disk |-> disk, configs |-> configs]]
       IN  IF ~MainExists(mainKind, main_directory)
           THEN run' = Raise(r0, "not_exist") /\ pc' = "idle"
           ELSE IF use_merge_config /\ NotSet(get_merge_config(configs[inst].map, main_directory))
           THEN run' = Raise(r0, "config_required") /\ pc' = "idle"
           ELSE IF ~MainListable(mainKind, main_directory)
           THEN run' = Raise(r0, "read_error") /\ pc' = "idle"
           ELSE /\ run' = [r0 EXCEPT !.subdirs = get_subdirectories(main_directory, listing),
                                     !.i = 1]
                /\ pc' = "preview"
    /\ UNCHANGED <<mainKind, mainDir, subDir, disk, configs>>

\* status_info: keys are the keys the dict holds.
StatusInfo(mode, merge_order, status, merge_files, missing_files, keys) ==
    [mode |-> mode, merge_order |-> merge_order, status |-> status,
     merge_files |-> merge_files, missing_files |-> missing_files, keys |-> keys]

\* A slip that reports a directory with missing files as ready, with the files found.
PreviewIteration_PartialReady(subdir, merge_order, listing, file_pattern, output_format, use_merge_config, t) ==
    LET found == find_merge_config_files(subdir, listing, merge_order)
        status_info ==
            IF use_merge_config
            THEN StatusInfo("merge_config", merge_order, "ready", found.merge_files, <<>>,
                            {"mode", "merge_order", "status", "merge_files"})
            ELSE StatusInfo("pattern", <<>>,
                            IF get_matching_files(subdir, listing, file_pattern) # <<>>
                            THEN "ready" ELSE "no_files",
                            <<>>, <<>>, {"mode", "status"})
        matching_files ==
            IF use_merge_config
            THEN get_ordered_merge_files(found.merge_files, merge_order)
            ELSE get_matching_files(subdir, listing, file_pattern)
        output_filename == format_output_filename(output_format, subdir, t)
    IN  IF matching_files # <<>>
        THEN <<[subdir |-> subdir, files |-> matching_files,
                out |-> PathJoin(subdir, output_filename), info |-> status_info]>>
        ELSE <<>>

\* One iteration of the loop of preview_merge: the entries it appends to preview_data.
PreviewIteration(subdir, merge_order, listing, file_pattern, output_format, use_merge_config, t) ==
    LET found == find_merge_config_files(subdir, listing, merge_order)
        status_info ==
            IF use_merge_config
            THEN IF found.all_found
                 THEN StatusInfo("merge_config", merge_order, "ready", found.merge_files, <<>>,
                                 {"mode", "merge_order", "status", "merge_files"})
                 ELSE StatusInfo("merge_config", merge_order, "missing", <<>>, found.missing,
                                 {"mode", "merge_order", "status", "missing_files"})
            ELSE StatusInfo("pattern", <<>>,
                            IF get_matching_files(subdir, listing, file_pattern) # <<>>
                            THEN "ready" ELSE "no_files",
                            <<>>, <<>>, {"mode", "status"})
        matching_files ==
            IF use_merge_config
            THEN IF found.all_found
                 THEN get_ordered_merge_files(found.merge_files, merge_order)
                 ELSE <<>>
            ELSE get_matching_files(subdir, listing, file_pattern)
        output_filename == format_output_filename(output_format, subdir, t)
    IN  IF matching_files # <<>> \/ (use_merge_config /\ status_info.status = "missing")
        THEN <<[subdir |-> subdir, files |-> matching_files,
                out |-> PathJoin(subdir, output_filename), info |-> status_info]>>
        ELSE <<>>

\* A slip that writes the would-be output file while previewing.
PreviewSubdir_Writes(t) ==
    /\ pc = "preview"
    /\ run.i <= Len(run.subdirs)
    /\ LET subdir == run.subdirs[run.i]
           merge_order == get_merge_config(configs[run.inst].map, run.main).val
       IN  \E listing \in Listdir(subDir[Basename(subdir)]) :
              LET entries == PreviewIteration(subdir, merge_order, listing, run.pattern,
                                              run.template, run.use_cfg, t)
              IN  /\ run' = [run EXCEPT !.i = @ + 1, !.preview = @ \o entries]
                  /\ subDir' = [subDir EXCEPT ![Basename(subdir)] =
                                    IF entries = <<>> THEN @
                                    ELSE WriteFile(@, Basename(entries[1].out), "merged")]
    /\ UNCHANGED <<mainKind, mainDir, disk, configs, pc, budget>>

PreviewSubdir(t) ==
    /\ pc = "preview"
    /\ run.i <= Len(run.subdirs)
    /\ LET subdir == run.subdirs[run.i]
           merge_order == get_merge_config(configs[run.inst].map, run.main).val
       IN  \E listing \in Listdir(subDir[Basename(subdir)]) :
              IF ~run.use_cfg /\ get_matching_files_raises(subdir, listing, run.pattern)
              THEN run' = Raise(run, "find_error") /\ pc' = "idle"
              ELSE /\ run' = [run EXCEPT
                                !.i = @ + 1,
                                !.preview = @ \o PreviewIteration(subdir, merge_order, listing,
                                                                  run.pattern, run.template,
                                                                  run.use_cfg, t)]
                   /\ pc' = pc
    /\ UNCHANGED <<mainKind, mainDir, subDir, disk, configs, budget>>

PreviewReturn ==
    /\ pc = "preview"
    /\ run.i > Len(run.subdirs)
    /\ run' = [run EXCEPT !.done = TRUE]
    /\ pc' = "idle"
    /\ UNCHANGED <<mainKind, mainDir, subDir, disk, configs, budget>>

(***************************************************************************)
(* The orchestrator's specification: a main directory of any content, a    *)
(* configuration file an earlier process left, one engine instance, and    *)
(* MaxCalls calls of merge_pdfs or preview_merge.                          *)
(***************************************************************************)
Insts == {1, 2}

NotLive == [live |-> FALSE, map |-> <<>>]

\* A slip that lets a failure of json.load leave __init__: no instance is made.
Construct_NoCatch(f) == IF f.exists /\ ~JsonLoad(f.text).ok THEN NotLive ELSE [live |-> TRUE, map |-> load_configs(f)]

\* PDFMerger.__init__ reading the file f
Construct(f) == [live |-> TRUE, map |-> load_configs(f)]

ConfigFiles ==
    {NoFile} \cup {FileOf(JsonDump(<<[k |-> RootDir, v |-> o]>>)) : o \in Orders}

Init ==
    /\ mainKind \in {"dir", "file", "absent"}
    /\ mainDir \in MainContents
    /\ mainKind # "dir" => mainDir = {}
    /\ subDir \in [SubNames -> SubContents]
    /\ \A n \in SubNames : Entry(n, "dir", "user") \notin mainDir => subDir[n] = {}
    /\ disk \in ConfigFiles
    /\ configs = [i \in Insts |-> IF i = 1 THEN Construct(disk) ELSE NotLive]
    /\ pc = "idle"
    /\ run = EmptyRun
    /\ budget = MaxCalls

CodecOutcomes == {"ok", "read_error", "write_error"}

Next ==
    \/ \E m \in MainArgs, p \in Patterns, o \in Templates, cb \in BOOLEAN, u \in BOOLEAN,
          l \in Listdir(mainDir) :
            MergeBegin(1, m, p, o, cb, u, l)
    \/ \E t \in Times, c \in CodecOutcomes : MergeSubdir(t, c)
    \/ MergeReturn
    \/ \E m \in MainArgs, p \in Patterns, o \in Templates, u \in BOOLEAN,
          l \in Listdir(mainDir) :
            PreviewBegin(1, m, p, o, u, l)
    \/ \E t \in Times : PreviewSubdir(t)
    \/ PreviewReturn

Spec == Init /\ [][Next]_vars

(***************************************************************************)
(* Properties of the orchestrator, checked under Spec.                     *)
(***************************************************************************)
\* The merge order stored for the main directory of the call in run.
OrderOfRun == get_merge_config(configs[run.inst].map, run.main)

MergeDone == run.op = "merge" /\ run.done /\ run.raised = ""

\* The name is the stem and ".pdf", letter case ignored.
NameResolves(name, stem) ==
    /\ Len(name) = Len(stem) + 4
    /\ \A k \in 1..Len(stem) : Lower(name[k]) = Lower(stem[k])
    /\ Lower(name[Len(stem) + 1]) = "."
    /\ Lower(name[Len(stem) + 2]) = "p"
    /\ Lower(name[Len(stem) + 3]) = "d"
    /\ Lower(name[Len(stem) + 4]) = "f"

\* Stem names a regular file of the directory.
StemResolves(S, stem) == \E e \in S : e.kind = "file" /\ NameResolves(e.name, stem)

Complete(S, order) == \A k \in 1..Len(order) : StemResolves(S, order[k])

\* Nothing changed since the call in run began: file system, configuration file
\* and in-memory mappings.
NothingChanged ==
    /\ mainKind = run.main0.kind /\ mainDir = run.main0.dir /\ subDir = run.fs0
    /\ disk = run.store0.disk /\ configs = run.store0.configs

\* C1: in whole-root-config mode with no configuration stored for the main
\* directory, merge_pdfs and preview_merge raise at once: the call is over with an
\* error, no subdirectory was enumerated or evaluated, no message was emitted, the
\* codec was not called, and the file system, the configuration file and the
\* in-memory mapping are as before.
C1_NoConfigRaisesFirst ==
    (run.op \in {"merge", "preview"} /\ run.use_cfg /\ ~OrderOfRun.some)
    => /\ run.raised # "" /\ run.done /\ pc = "idle"
       /\ run.subdirs = <<>> /\ run.evals = <<>> /\ run.log = <<>>
       /\ run.calls = <<>> /\ run.results = <<>> /\ run.preview = <<>>
       /\ NothingChanged

C1_Witness ==
    /\ run.op = "merge" /\ run.use_cfg /\ run.cb /\ run.raised = "config_required"
    /\ ~OrderOfRun.some
    /\ \E n \in SubNames : Entry(n, "dir", "user") \in mainDir /\ subDir[n] # {}

\* The in-memory mapping of the instance called is as set_merge_config(main, [])
\* leaves it: storing the empty list for the main directory changes nothing.
EmptyOrderStored ==
    /\ run.inst \in Insts
    /\ configs[run.inst].map = DictSet(configs[run.inst].map, SetKey(run.main), <<>>)

\* C28: with the empty list stored for the main directory, as after
\* set_merge_config(root, []), get_merge_config gives the empty list, not None,
\* and yet merge_pdfs and preview_merge in whole-root-config mode on an existing
\* main directory raise the "required but not set" error at once: no
\* subdirectory was enumerated or evaluated, nothing was noted, the codec was not
\* called, and file system and configuration are as before.  (A main directory
\* that does not exist is reported first.)
C28_EmptyOrderIsNoConfig ==
    (run.op \in {"merge", "preview"} /\ run.use_cfg /\ EmptyOrderStored)
    => /\ OrderOfRun = Some(<<>>)
       /\ run.raised = IF MainExists(run.main0.kind, run.main)
                       THEN "config_required" ELSE "not_exist"
       /\ run.done /\ pc = "idle"
       /\ run.subdirs = <<>> /\ run.evals = <<>> /\ run.log = <<>>
       /\ run.calls = <<>> /\ run.results = <<>> /\ run.preview = <<>>
       /\ NothingChanged

C28_Witness ==
    /\ run.op = "preview" /\ run.use_cfg /\ EmptyOrderStored
    /\ run.raised = "config_required"
    /\ \E n \in SubNames : Entry(n, "dir", "user") \in mainDir /\ subDir[n] # {}

\* C2: in whole-root-config mode, when every codec call succeeded, a subdirectory
\* has an entry in the result list exactly if every configured stem resolves to a
\* file in it; then the entry's file exists, written by the merge.  A subdirectory
\* missing a stem is left as it was, and does not keep the others from being merged.
C2_CompleteIffMerged ==
    (MergeDone /\ run.use_cfg /\ \A k \in 1..Len(run.calls) : run.calls[k].outcome = "ok")
    => \A i \in 1..Len(run.subdirs) :
          LET sub == run.subdirs[i]
              name == Basename(sub)
              complete == Complete(run.fs0[name], OrderOfRun.val)
              outs == {k \in 1..Len(run.results) : Dirname(run.results[k]) = sub}
          IN  /\ complete <=> outs # {}
              /\ \A k \in outs : \E e \in subDir[name] :
                    e.content = "merged" /\ PathJoin(sub, e.name) = run.results[k]
              /\ ~complete => subDir[name] = run.fs0[name]

C2_Witness ==
    /\ MergeDone /\ run.use_cfg
    /\ Len(run.subdirs) = 2 /\ Len(run.results) = 1
    /\ ~Complete(run.fs0[Basename(run.subdirs[1])], OrderOfRun.val)
    /\ run.fs0[Basename(run.subdirs[1])] # {}
    /\ Dirname(run.results[1]) = run.subdirs[2]
    /\ Len(OrderOfRun.val) = 2

\* The index in run.calls of the codec call for subdirectory sub, 0 for none.
CallFor(sub) ==
    IF \E k \in 1..Len(run.calls) : run.calls[k].subdir = sub
    THEN CHOOSE k \in 1..Len(run.calls) : run.calls[k].subdir = sub
    ELSE 0

\* C7: a failed codec call is caught: merge_pdfs does not raise, the failed
\* subdirectory's output path is not in the result list, the failure is reported
\* when a sink is given, and when merge_pdfs returns every subdirectory was
\* evaluated, each eligible one had its codec call, and each successful call's
\* output path is in the result list.
C7_FailureIsolated ==
    /\ run.op = "merge" /\ run.calls # <<>> => run.raised = ""
    /\ \A k \in 1..Len(run.calls) :
          run.calls[k].outcome # "ok"
          => /\ \A j \in 1..Len(run.results) : run.results[j] # run.calls[k].out
             /\ run.cb => \E j \in 1..Len(run.log) :
                            /\ run.log[j].m = "error"
                            /\ run.log[j].s = Basename(run.calls[k].subdir)
    /\ MergeDone
       => /\ Len(run.evals) = Len(run.subdirs)
          /\ \A i \in 1..Len(run.subdirs) :
                /\ run.evals[i].subdir = run.subdirs[i]
                /\ run.evals[i].files # <<>> <=> CallFor(run.subdirs[i]) # 0
                /\ CallFor(run.subdirs[i]) # 0
                   => /\ run.calls[CallFor(run.subdirs[i])].files = run.evals[i].files
                      /\ run.calls[CallFor(run.subdirs[i])].outcome = "ok"
                         => \E j \in 1..Len(run.results) :
                                run.results[j] = run.calls[CallFor(run.subdirs[i])].out

C7_Witness ==
    /\ MergeDone /\ run.cb
    /\ Len(run.calls) = 2
    /\ run.calls[1].outcome = "write_error"
    /\ run.calls[2].outcome = "ok"
    /\ run.results = <<run.calls[2].out>>

\* The output paths of the successful calls, in call order.
RECURSIVE OkOuts(_)
OkOuts(calls) ==
    IF calls = <<>> THEN <<>>
    ELSE (IF Head(calls).outcome = "ok" THEN <<Head(calls).out>> ELSE <<>>) \o OkOuts(Tail(calls))

\* The index in run.subdirs of the directory of path.
SubdirIndex(path) == CHOOSE i \in 1..Len(run.subdirs) : run.subdirs[i] = Dirname(path)

\* C8: merge_pdfs returns exactly the output paths of the successful codec calls;
\* they lie in distinct subdirectories of the batch, in processing order (so at
\* most one per subdirectory); a batch with no eligible subdirectory returns the
\* empty list without raising.
C8_ResultsInOrder ==
    MergeDone
    => /\ run.results = OkOuts(run.calls)
       /\ \A k \in 1..Len(run.results) :
             \E i \in 1..Len(run.subdirs) : run.subdirs[i] = Dirname(run.results[k])
       /\ \A j, k \in 1..Len(run.results) :
             j < k => SubdirIndex(run.results[j]) < SubdirIndex(run.results[k])
       /\ (\A i \in 1..Len(run.evals) : run.evals[i].files = <<>>) => run.results = <<>>

C8_Witness ==
    /\ MergeDone
    /\ Len(run.results) = 2
    /\ Basename(run.subdirs[1]) = <<"q">>
    /\ Dirname(run.results[1]) = run.subdirs[1]
    /\ Dirname(run.results[2]) = run.subdirs[2]

\* C9: preview_merge changes nothing and never calls the codec: at every point
\* of a call, and after it returned or raised, the file system, the configuration
\* file and the in-memory mappings are what they were when the call began.
C9_PreviewChangesNothing ==
    run.op = "preview" => NothingChanged /\ run.calls = <<>>

C9_Witness ==
    /\ run.op = "preview" /\ run.done /\ run.raised = ""
    /\ Len(run.preview) = 2
    /\ run.preview[1].info.status = "ready"
    /\ run.preview[2].info.status = "missing"

\* What one iteration of preview_merge reports as ready: subdirectory, file list
\* and output path.
ReadyOf(entries) ==
    LET ready == SelectSeq2(entries, {entries[k] : k \in {j \in 1..Len(entries) :
                                          entries[j].info.status = "ready"}})
    IN  [k \in 1..Len(ready) |->
            [subdir |-> ready[k].subdir, files |-> ready[k].files, out |-> ready[k].out]]

\* What preview_merge reports as ready for the i-th subdirectory of the call in
\* run, listed in the order merge_pdfs saw, when the clock reads t.
PreviewReady(i, t) ==
    ReadyOf(PreviewIteration(run.subdirs[i], OrderOfRun.val, run.evals[i].listing,
                             run.pattern, run.template, run.use_cfg, t))

\* C10: the subdirectories preview_merge reports as ready, with their file lists
\* and output paths, are those merge_pdfs calls the codec for, with the same file
\* lists and output paths: a subdirectory without a codec call is ready at no
\* clock reading, one with a codec call is ready, with the call's file list and
\* output path, at the clock reading of the call; the calls follow the order of
\* the subdirectories.
C10_PreviewAgreesWithMerge ==
    MergeDone
    => /\ \A i \in 1..Len(run.subdirs) :
             LET c == CallFor(run.subdirs[i])
             IN  IF c = 0
                 THEN \A t \in Times : PreviewReady(i, t) = <<>>
                 ELSE \E t \in Times :
                        PreviewReady(i, t) =
                            <<[subdir |-> run.calls[c].subdir, files |-> run.calls[c].files,
                               out |-> run.calls[c].out]>>
       /\ \A j, k \in 1..Len(run.calls) :
             j < k => \E a, b \in 1..Len(run.subdirs) :
                        /\ a < b
                        /\ run.subdirs[a] = run.calls[j].subdir
                        /\ run.subdirs[b] = run.calls[k].subdir

C10_Witness ==
    /\ MergeDone /\ run.use_cfg
    /\ Len(run.calls) = 1 /\ Len(run.subdirs) = 2
    /\ Len(run.calls[1].files) = 2
    /\ run.evals[1].missing # <<>>
    /\ run.template = PhDirectory \o <<"_">> \o PhTime
    /\ Basename(run.calls[1].out) =
          Basename(run.calls[1].subdir) \o <<"_">> \o TimeStr(1) \o DotPdf

(***************************************************************************)
(* The selector on its own: find_merge_config_files and                    *)
(* get_ordered_merge_files applied to one directory, of up to              *)
(* MaxResolveFiles entries whose names differ by case, by stem and by      *)
(* suffix, listed in any order, and a merge order of up to MaxOrder stems. *)
(***************************************************************************)
MaxResolveFiles == 3
MaxOrder == 2

ResolveDir == PathJoin(RootDir, AllSubNames[1])

ResolveEntries ==
    {Entry(n, "file", "user") : n \in {<<"a", ".", "p", "d", "f">>, <<"A", ".", "P", "D", "F">>,
                                       <<"b", ".", "p", "d", "f">>, <<"a", "b", ".", "p", "d", "f">>,
                                       <<"a", ".", "t", "x", "t">>}}
    \cup {Entry(<<"b", ".", "p", "d", "f">>, "dir", "user")}

ResolveContents ==
    {S \in SUBSET ResolveEntries : Cardinality(S) <= MaxResolveFiles /\ DistinctEntries(S)}

ResolveOrders == SeqsUpTo({<<"a">>, <<"A">>, <<"b">>, <<"a", "b">>}, MaxOrder)

InitResolve ==
    /\ mainKind = "dir"
    /\ mainDir = {Entry(AllSubNames[1], "dir", "user")}
    /\ \E S \in ResolveContents : subDir = [n \in SubNames |-> IF n = AllSubNames[1] THEN S ELSE {}]
    /\ disk = NoFile
    /\ configs = [i \in Insts |-> IF i = 1 THEN Construct(disk) ELSE NotLive]
    /\ pc = "idle"
    /\ run = EmptyRun
    /\ budget = MaxCalls

\* find_merge_config_files(directory, merge_order), then get_ordered_merge_files,
\* as merge_pdfs and preview_merge call them.
Resolve(listing, merge_order) ==
    /\ pc = "idle"
    /\ LET found == find_merge_config_files(ResolveDir, listing, merge_order)
       IN  run' = [EmptyRun EXCEPT
                     !.op = "resolve", !.main = ResolveDir, !.order = merge_order,
                     !.evals = <<[subdir |-> ResolveDir, listing |-> listing,
                                  files |-> get_ordered_merge_files(found.merge_files, merge_order),
                                  missing |-> found.missing]>>,
                     !.ret = [some |-> found.all_found, val |-> found.merge_files],
                     !.done = TRUE]
    /\ pc' = "done"
    /\ UNCHANGED <<mainKind, mainDir, subDir, disk, configs, budget>>

NextResolve ==
    /\ pc = "idle"
    /\ \E listing \in Listdir(subDir[AllSubNames[1]]), merge_order \in ResolveOrders :
          Resolve(listing, merge_order)

SpecResolve == InitResolve /\ [][NextResolve]_vars

\* C3: when every stem of the merge order resolves, the ordered file list has one
\* file per stem, in the order of the stems: its k-th file is a regular file of
\* the directory whose name is the k-th stem and ".pdf", letter case ignored,
\* whatever the order of the directory listing.
C3_OrderPreserved ==
    (run.op = "resolve" /\ run.ret.some)
    => LET ordered == run.evals[1].files
       IN  /\ Len(ordered) = Len(run.order)
           /\ \A k \in 1..Len(ordered) :
                 /\ Dirname(ordered[k]) = ResolveDir
                 /\ NameResolves(Basename(ordered[k]), run.order[k])
                 /\ Entry(Basename(ordered[k]), "file", "user") \in subDir[AllSubNames[1]]

C3_Witness ==
    /\ run.op = "resolve" /\ run.ret.some
    /\ run.order = <<<<"b">>, <<"a">>>>
    /\ Len(run.evals[1].listing) = 3
    /\ run.evals[1].listing[1].name = <<"a", ".", "p", "d", "f">>
    /\ run.evals[1].listing[2].name = <<"b", ".", "p", "d", "f">>
    /\ run.evals[1].files = <<PathJoin(ResolveDir, <<"b", ".", "p", "d", "f">>),
                              PathJoin(ResolveDir, <<"a", ".", "p", "d", "f">>)>>

\* C4: a stem of the merge order is found exactly if the directory holds a
\* regular file whose name is the stem and ".pdf", letter case ignored in both;
\* otherwise it is reported missing; the file found for a stem is such a file,
\* so a file whose stem differs other than by case is never taken.
C4_CaseInsensitiveMatch ==
    run.op = "resolve"
    => \A k \in 1..Len(run.order) :
          LET stem == run.order[k]
              merge_files == run.ret.val
              S == subDir[AllSubNames[1]]
          IN  /\ StemResolves(S, stem) <=> stem \in DOMAIN merge_files
              /\ ~StemResolves(S, stem) <=> \E j \in 1..Len(run.evals[1].missing) :
                                                run.evals[1].missing[j] = stem
              /\ stem \in DOMAIN merge_files
                 => /\ Len(merge_files[stem]) = 1
                    /\ Dirname(merge_files[stem][1]) = ResolveDir
                    /\ NameResolves(Basename(merge_files[stem][1]), stem)
                    /\ Entry(Basename(merge_files[stem][1]), "file", "user") \in S

C4_Witness ==
    /\ run.op = "resolve"
    /\ run.order = <<<<"a">>, <<"b">>>>
    /\ Len(run.evals[1].listing) = 3
    /\ run.evals[1].listing[1].name = <<"a", "b", ".", "p", "d", "f">>
    /\ <<"a">> \in DOMAIN run.ret.val
    /\ run.ret.val[<<"a">>] = <<PathJoin(ResolveDir, <<"A", ".", "P", "D", "F">>)>>
    /\ run.evals[1].missing = <<<<"b">>>>

\* C29: when every stem of the merge order resolves, the ordered file list is as
\* long as the merge order and its i-th entry is the file find_merge_config_files
\* resolved for the i-th stem; so two places of the order that hold the same
\* stem, or stems that differ by letter case only, hold the same file: the file
\* is in the list twice.
C29_OneEntryPerStem ==
    (run.op = "resolve" /\ run.ret.some)
    => LET ordered == run.evals[1].files
           merge_files == run.ret.val
       IN  /\ Len(ordered) = Len(run.order)
           /\ \A i \in 1..Len(run.order) :
                 /\ run.order[i] \in DOMAIN merge_files
                 /\ i <= Len(ordered) => ordered[i] = merge_files[run.order[i]][1]
           /\ \A i, j \in 1..Len(run.order) :
                 (LowerStr(run.order[i]) = LowerStr(run.order[j])
                    /\ i <= Len(ordered) /\ j <= Len(ordered))
                 => ordered[i] = ordered[j]

\* The order [a, A] over a directory holding A.PDF and a.pdf: the file listed
\* first is taken for both stems.
C29_Witness ==
    /\ run.op = "resolve" /\ run.ret.some
    /\ run.order = <<<<"a">>, <<"A">>>>
    /\ Len(run.evals[1].listing) = 2
    /\ run.evals[1].listing[1].name = <<"A", ".", "P", "D", "F">>
    /\ run.evals[1].listing[2].name = <<"a", ".", "p", "d", "f">>
    /\ run.evals[1].files = <<PathJoin(ResolveDir, <<"A", ".", "P", "D", "F">>),
                              PathJoin(ResolveDir, <<"A", ".", "P", "D", "F">>)>>

(***************************************************************************)
(* The configuration store on its own: up to MaxStoreCalls calls of        *)
(* set_merge_config, get_merge_config, delete_merge_config and of the      *)
(* constructor, on two instances sharing the configuration file, with      *)
(* roots under several spellings.  run.log is the sequence of the calls.   *)
(***************************************************************************)
MaxStoreCalls == 2

OtherDir == <<"/", "s">>

\* Spellings of RootDir: absolute, relative to Cwd, with a trailing slash, with "./".
RootSpellings ==
    {<<"/", "r">>, <<"/", "r", "/">>, <<"r">>, <<"r", "/">>, <<".", "/", "r">>}

StoreRoots == RootSpellings \cup {OtherDir}

StoreOrders == {<<<<"a">>>>, <<<<"b">>, <<"a">>>>}

StoreFiles ==
    {NoFile, FileOf(JsonDump(<<>>)),
     FileOf(JsonDump(<<[k |-> RootDir, v |-> <<<<"a">>>>]>>)),
     FileOf(JsonDump(<<[k |-> OtherDir, v |-> <<<<"b">>, <<"a">>>>]>>)),
     FileOf(JsonDump(<<[k |-> OtherDir, v |-> <<<<"b">>, <<"a">>>>],
                       [k |-> RootDir, v |-> <<<<"a">>>>]>>)),
     FileOf(<<Tok("{"), StrTok(RootDir), Tok(":")>>)}

\* open(self.config_file, 'r') and f.read(): done, or raising.
LoadOutcomes == {"ok", "read_error"}

SaveOutcomes == {"ok", "open_error", "write_error"}

\* Where a failing json.dump of the mapping d may stop.
Cuts(d, outcome) == IF outcome = "write_error" THEN 0..(Len(JsonDump(d)) - 1) ELSE {0}

\* A call on the store: io is what became of its file access, "none" without one.
StoreCall(op, inst, root_directory, merge_order, ret, raised, io) ==
    [op |-> op, inst |-> inst, main |-> root_directory, order |-> merge_order,
     ret |-> ret, raised |-> raised, io |-> io]

\* The store as a delete_merge_config finds it, kept in run.store0 for that call;
\* a set_merge_config that fails keeps the file it found.
StoreNow == [disk |-> disk, configs |-> configs]

InitStore ==
    /\ mainKind = "absent"
    /\ mainDir = {}
    /\ subDir = [n \in SubNames |-> {}]
    /\ disk \in StoreFiles
    /\ configs = [i \in Insts |-> IF i = 1 THEN Construct(disk) ELSE NotLive]
    /\ pc = "idle"
    /\ run = EmptyRun
    /\ budget = MaxStoreCalls

\* PDFMerger() for instance inst.  A failing open or read of an existing file
\* is caught like a failing json.load: the mapping is empty.
NewMerger(inst, outcome) ==
    /\ budget > 0
    /\ outcome = "read_error" => disk.exists
    /\ configs' = [configs EXCEPT ![inst] = IF outcome = "read_error"
                                            THEN [live |-> TRUE, map |-> <<>>]
                                            ELSE Construct(disk)]
    /\ run' = [run EXCEPT !.op = "new", !.inst = inst, !.store0 = EmptyRun.store0,
                          !.log = Append(@, StoreCall("new", inst, <<>>, <<>>, None, "",
                                                      IF disk.exists THEN outcome ELSE "none"))]
    /\ budget' = budget - 1
    /\ UNCHANGED <<mainKind, mainDir, subDir, disk, pc>>

\* PDFMerger.set_merge_config
SetMergeConfig(inst, root_directory, merge_order, outcome) ==
    /\ budget > 0
    /\ configs[inst].live
    /\ LET normalized_path == SetKey(root_directory)
           d == DictSet(configs[inst].map, normalized_path, merge_order)
       IN  \E cut \in Cuts(d, outcome) :
              LET saved == save_configs(d, disk, outcome, cut)
              IN  /\ configs' = [configs EXCEPT ![inst].map = d]
                  /\ disk' = saved.file
                  /\ run' = [run EXCEPT
                               !.op = "set", !.inst = inst,
                               !.store0 = IF saved.raised # ""
                                          THEN [EmptyRun.store0 EXCEPT !.disk = disk]
                                          ELSE EmptyRun.store0,
                               !.log = Append(@, StoreCall("set", inst, root_directory, merge_order,
                                                           None, saved.raised, outcome))]
    /\ budget' = budget - 1
    /\ UNCHANGED <<mainKind, mainDir, subDir, pc>>

\* PDFMerger.get_merge_config
GetMergeConfig(inst, root_directory) ==
    /\ budget > 0
    /\ configs[inst].live
    /\ run' = [run EXCEPT
                 !.op = "get", !.inst = inst, !.store0 = EmptyRun.store0,
                 !.log = Append(@, StoreCall("get", inst, root_directory, <<>>,
                                             get_merge_config(configs[inst].map, root_directory),
                                             "", "none"))]
    /\ budget' = budget - 1
    /\ UNCHANGED <<mainKind, mainDir, subDir, disk, configs, pc>>

\* PDFMerger.delete_merge_config
DeleteMergeConfig(inst, root_directory, outcome) ==
    /\ budget > 0
    /\ configs[inst].live
    /\ LET normalized_path == AbsPath(root_directory)
           d == DictDel(configs[inst].map, normalized_path)
       IN  IF normalized_path \in DictKeys(configs[inst].map)
           THEN \E cut \in Cuts(d, outcome) :
                   LET saved == save_configs(d, disk, outcome, cut)
                   IN  /\ configs' = [configs EXCEPT ![inst].map = d]
                       /\ disk' = saved.file
                       /\ run' = [run EXCEPT
                                    !.op = "delete", !.inst = inst, !.store0 = StoreNow,
                                    !.log = Append(@, StoreCall("delete", inst, root_directory, <<>>,
                                                                None, saved.raised, outcome))]
           ELSE /\ outcome = "ok"
                /\ run' = [run EXCEPT
                             !.op = "delete", !.inst = inst, !.store0 = StoreNow,
                             !.log = Append(@, StoreCall("delete", inst, root_directory, <<>>,
                                                         None, "", "none"))]
                /\ UNCHANGED <<configs, disk>>
    /\ budget' = budget - 1
    /\ UNCHANGED <<mainKind, mainDir, subDir, pc>>

NextStore ==
    \/ \E i \in Insts, c \in LoadOutcomes : NewMerger(i, c)
    \/ \E i \in Insts, r \in StoreRoots, o \in StoreOrders, c \in SaveOutcomes :
          SetMergeConfig(i, r, o, c)
    \/ \E i \in Insts, r \in StoreRoots : GetMergeConfig(i, r)
    \/ \E i \in Insts, r \in StoreRoots, c \in SaveOutcomes : DeleteMergeConfig(i, r, c)

SpecStore == InitStore /\ [][NextStore]_vars

\* The last call, and the one before it, of the sequence of calls.
LastCall == run.log[Len(run.log)]

CallBefore == run.log[Len(run.log) - 1]

SetSucceeded(c) == c.op = "set" /\ c.raised = ""

\* C5: once set_merge_config(k, v) has returned, the instance's mapping and the
\* configuration file both give v for k; a get_merge_config(k) that follows on the
\* same instance returns v, and an instance constructed next, reading the file,
\* gives v for k.
C5_ConfigRoundTrip ==
    /\ (Len(run.log) >= 1 /\ SetSucceeded(LastCall))
       => /\ get_merge_config(configs[LastCall.inst].map, LastCall.main) = Some(LastCall.order)
          /\ get_merge_config(Construct(disk).map, LastCall.main) = Some(LastCall.order)
    /\ (Len(run.log) >= 2 /\ SetSucceeded(CallBefore))
       => /\ (LastCall.op = "get" /\ LastCall.inst = CallBefore.inst
                                  /\ LastCall.main = CallBefore.main)
             => LastCall.ret = Some(CallBefore.order)
          /\ (LastCall.op = "new" /\ LastCall.io = "ok")
             => get_merge_config(configs[LastCall.inst].map, CallBefore.main)
                   = Some(CallBefore.order)

C5_Witness ==
    /\ Len(run.log) = 2
    /\ SetSucceeded(CallBefore) /\ CallBefore.inst = 1
    /\ CallBefore.order = <<<<"b">>, <<"a">>>>
    /\ LastCall.op = "new" /\ LastCall.inst = 2 /\ LastCall.io = "ok"
    /\ Len(configs[2].map) = 2
    /\ get_merge_config(configs[2].map, CallBefore.main) = Some(<<<<"b">>, <<"a">>>>)

\* The root a spelling names.
RootOf(p) == IF p \in RootSpellings THEN RootDir ELSE OtherDir

\* C6: get_merge_config returns the same under every spelling of a root as under
\* its absolute path; what set_merge_config stored under one spelling is returned
\* under every other spelling of the same root; and no mapping, in memory or in
\* the configuration file, holds two keys for one root.
C6_PathNormalised ==
    /\ \A i \in Insts :
          /\ \A p \in StoreRoots :
                get_merge_config(configs[i].map, p) = get_merge_config(configs[i].map, RootOf(p))
          /\ \A j, k \in 1..Len(configs[i].map) :
                RootOf(configs[i].map[j].k) = RootOf(configs[i].map[k].k) => j = k
    /\ \A j, k \in 1..Len(load_configs(disk)) :
          RootOf(load_configs(disk)[j].k) = RootOf(load_configs(disk)[k].k) => j = k
    /\ Len(run.log) >= 1 /\ LastCall.op = "get"
       => LastCall.ret = get_merge_config(configs[LastCall.inst].map, RootOf(LastCall.main))
    /\ (Len(run.log) >= 2 /\ CallBefore.op = "set" /\ LastCall.op = "get"
            /\ LastCall.inst = CallBefore.inst /\ RootOf(LastCall.main) = RootOf(CallBefore.main))
       => LastCall.ret = Some(CallBefore.order)

C6_Witness ==
    /\ Len(run.log) = 2
    /\ SetSucceeded(CallBefore) /\ CallBefore.main = <<"r", "/">>
    /\ CallBefore.order = <<<<"b">>, <<"a">>>>
    /\ LastCall.op = "get" /\ LastCall.inst = CallBefore.inst
    /\ LastCall.main = <<".", "/", "r">>
    /\ LastCall.ret = Some(<<<<"b">>, <<"a">>>>)
    /\ Len(configs[1].map) = 2

\* C18: a set_merge_config, or a delete_merge_config of a present key, whose
\* write of the configuration file fails ends with an error; one that ends
\* without error has written the instance's mapping to the file.
C18_SaveFailurePropagates ==
    \A n \in 1..Len(run.log) :
       run.log[n].op \in {"set", "delete"}
       => /\ run.log[n].io \in {"open_error", "write_error"} => run.log[n].raised # ""
          /\ (n = Len(run.log) /\ run.log[n].io # "none" /\ run.log[n].raised = "")
             => /\ run.log[n].io = "ok"
                /\ disk = FileOf(JsonDump(configs[run.log[n].inst].map))

C18_Witness ==
    /\ Len(run.log) >= 1
    /\ LastCall.op = "delete" /\ LastCall.io = "open_error" /\ LastCall.raised = "save_error"
    /\ get_merge_config(run.store0.configs[LastCall.inst].map, LastCall.main).some

\* The last call is a set_merge_config whose write of the file failed.
SetFailed == Len(run.log) >= 1 /\ LastCall.op = "set" /\ LastCall.raised # ""

\* C30, as stated: when the write of set_merge_config fails the error leaves the
\* call, the instance's mapping already gives the new value for the key, and the
\* configuration file keeps the content it had before the call.
C30_NoRollbackFileKept ==
    SetFailed
    => /\ LastCall.io \in {"open_error", "write_error"}
       /\ get_merge_config(configs[LastCall.inst].map, LastCall.main) = Some(LastCall.order)
       /\ disk = run.store0.disk

\* What holds of a failed set_merge_config: the error leaves the call, the
\* mapping gives the new value, and the file is as before when it could not be
\* opened, and otherwise holds a strict prefix of the text of the new mapping,
\* from which a new instance loads the empty mapping.
NoRollbackFileKeptOrCut ==
    SetFailed
    => /\ LastCall.io \in {"open_error", "write_error"}
       /\ get_merge_config(configs[LastCall.inst].map, LastCall.main) = Some(LastCall.order)
       /\ LastCall.io = "open_error" => disk = run.store0.disk
       /\ LastCall.io = "write_error"
          => /\ disk.exists
             /\ \E n \in 0..(Len(JsonDump(configs[LastCall.inst].map)) - 1) :
                   disk.text = SubSeq(JsonDump(configs[LastCall.inst].map), 1, n)
             /\ Construct(disk).map = <<>>

\* The mappings the store can hold.
StoreMaps ==
    {d \in SeqsUpTo([k : {RootDir, OtherDir}, v : StoreOrders], 2) :
        \A j, k \in 1..Len(d) : d[j].k = d[k].k => j = k}

\* The text is the whole JSON text of a mapping.
WellFormed(text) == \E d \in StoreMaps : text = JsonDump(d)

\* C19: constructing an instance when the configuration file exists and cannot
\* be read, or is not the JSON text of a mapping, succeeds: there is an instance,
\* no error, get_merge_config returns None for every key and get_all_configs
\* returns the empty mapping.
C19_LoadFailureIsEmpty ==
    (/\ Len(run.log) >= 1 /\ LastCall.op = "new" /\ disk.exists
     /\ LastCall.io = "read_error" \/ ~WellFormed(disk.text))
    => /\ LastCall.raised = ""
       /\ configs[LastCall.inst].live
       /\ get_all_configs(configs[LastCall.inst].map) = <<>>
       /\ \A r \in StoreRoots : get_merge_config(configs[LastCall.inst].map, r) = None

C19_Witness ==
    /\ Len(run.log) = 2
    /\ CallBefore.op = "set" /\ CallBefore.inst = 1 /\ CallBefore.io = "write_error"
    /\ LastCall.op = "new" /\ LastCall.inst = 2 /\ LastCall.io = "ok"
    /\ Len(disk.text) > 3
    /\ configs[2] = [live |-> TRUE, map |-> <<>>]
    /\ configs[1].map # <<>>

\* The mapping of the instance of the last call, as the call found it.
MapBefore == run.store0.configs[LastCall.inst].map

\* C20, as stated: after delete_merge_config(k) the key is absent in memory and
\* in the persisted file, every other key keeps its value, and deleting a key
\* that is not present changes neither the mapping nor the file and raises nothing.
C20_DeleteRemovesOnlyKey ==
    (Len(run.log) >= 1 /\ LastCall.op = "delete")
    => /\ get_merge_config(configs[LastCall.inst].map, LastCall.main) = None
       /\ get_merge_config(MapBefore, LastCall.main).some
          => get_merge_config(load_configs(disk), LastCall.main) = None
       /\ \A r \in StoreRoots :
             RootOf(r) # RootOf(LastCall.main)
             => get_merge_config(configs[LastCall.inst].map, r) = get_merge_config(MapBefore, r)
       /\ ~get_merge_config(MapBefore, LastCall.main).some
          => /\ configs = run.store0.configs /\ disk = run.store0.disk
             /\ LastCall.raised = ""

\* C20, amended: in memory the key is absent and every other key keeps its value;
\* when the call ends without error after removing a key, the file holds the
\* instance's mapping, without the key and with every other key of that mapping;
\* when it ends with an error the write failed and the file is as before or cut
\* short; deleting a key that is not present changes nothing and raises nothing.
C20_DeleteOnSuccess ==
    (Len(run.log) >= 1 /\ LastCall.op = "delete")
    => LET present == get_merge_config(MapBefore, LastCall.main).some
           now == configs[LastCall.inst].map
       IN  /\ get_merge_config(now, LastCall.main) = None
           /\ \A r \in StoreRoots :
                 RootOf(r) # RootOf(LastCall.main)
                 => get_merge_config(now, r) = get_merge_config(MapBefore, r)
           /\ Len(now) = Len(MapBefore) - (IF present THEN 1 ELSE 0)
           /\ \A j \in Insts : j # LastCall.inst => configs[j] = run.store0.configs[j]
           /\ (present /\ LastCall.raised = "")
              => /\ disk = FileOf(JsonDump(now))
                 /\ load_configs(disk) = now
                 /\ get_merge_config(load_configs(disk), LastCall.main) = None
                 /\ \A r \in StoreRoots :
                       RootOf(r) # RootOf(LastCall.main)
                       => get_merge_config(load_configs(disk), r) = get_merge_config(MapBefore, r)
           /\ LastCall.raised # ""
              => /\ present /\ LastCall.io \in {"open_error", "write_error"}
                 /\ disk = run.store0.disk \/ ~WellFormed(disk.text)
           /\ ~present
              => /\ configs = run.store0.configs /\ disk = run.store0.disk
                 /\ LastCall.raised = ""

C20_Witness ==
    /\ Len(run.log) >= 1
    /\ LastCall.op = "delete" /\ LastCall.raised = "" /\ LastCall.io = "ok"
    /\ LastCall.main = <<"r", "/">>
    /\ Len(MapBefore) = 2 /\ Len(configs[LastCall.inst].map) = 1
    /\ get_merge_config(load_configs(disk), OtherDir) = Some(<<<<"b">>, <<"a">>>>)
    /\ get_merge_config(load_configs(disk), RootDir) = None

(***************************************************************************)
(* What preview_merge returns, checked under Spec.                         *)
(***************************************************************************)
PreviewDone == run.op = "preview" /\ run.done /\ run.raised = ""

\* The indices of the entries of preview_data for the subdirectory sub.
EntriesFor(sub) == {k \in 1..Len(run.preview) : run.preview[k].subdir = sub}

\* C11, as stated: preview_merge returns, for each subdirectory it evaluated, an
\* entry whose status is ready, missing or no_files; one in which the pattern
\* matches no file has an entry with status no_files.
C11_EverySubdirReported ==
    PreviewDone
    => \A i \in 1..Len(run.subdirs) :
          /\ \E k \in EntriesFor(run.subdirs[i]) :
                run.preview[k].info.status \in {"ready", "missing", "no_files"}
          /\ (~run.use_cfg
              /\ \A l \in Listdir(run.fs0[Basename(run.subdirs[i])]) :
                    get_matching_files(run.subdirs[i], l, run.pattern) = <<>>)
             => \E k \in EntriesFor(run.subdirs[i]) : run.preview[k].info.status = "no_files"

\* The stems of order that no regular file of S resolves, in the order of order.
Unmatched(S, order) ==
    SelectSeq2(order, {order[k] : k \in {j \in 1..Len(order) : ~StemResolves(S, order[j])}})

\* C12: in whole-root-config mode preview_merge returns, for a subdirectory in
\* which a configured stem has no file, one entry: its status is missing, its
\* file list is empty, and its missing_files are the stems without a file, all of
\* them, in the order of the configuration.
C12_MissingReported ==
    (PreviewDone /\ run.use_cfg)
    => \A i \in 1..Len(run.subdirs) :
          LET sub == run.subdirs[i]
              S == run.fs0[Basename(sub)]
          IN  ~Complete(S, OrderOfRun.val)
              => /\ Cardinality(EntriesFor(sub)) = 1
                 /\ \A k \in EntriesFor(sub) :
                       /\ run.preview[k].info.status = "missing"
                       /\ run.preview[k].files = <<>>
                       /\ "missing_files" \in run.preview[k].info.keys
                       /\ run.preview[k].info.missing_files = Unmatched(S, OrderOfRun.val)

C12_Witness ==
    /\ PreviewDone /\ run.use_cfg
    /\ Len(run.preview) = 2
    /\ run.preview[1].info.status = "missing"
    /\ run.preview[1].info.missing_files = <<<<"b">>, <<"a">>>>
    /\ run.preview[2].info.status = "missing"
    /\ run.preview[2].info.missing_files = <<<<"a">>>>
    /\ run.fs0[Basename(run.preview[2].subdir)] # {}

(***************************************************************************)
(* The pattern selector on its own: get_matching_files applied to one      *)
(* directory of up to MaxSortFiles files, listed in any order, with the    *)
(* pattern "*".                                                            *)
(***************************************************************************)
MaxSortFiles == 3

SortDir == PathJoin(RootDir, AllSubNames[1])

SortNames ==
    {<<"f", "i", "l", "e", "2", ".", "p", "d", "f">>,
     <<"f", "i", "l", "e", "1", "0", ".", "p", "d", "f">>,
     <<"F", "i", "l", "e", "3", ".", "p", "d", "f">>,
     <<"1", ".", "p", "d", "f">>,
     <<"1", "a", "2", ".", "p", "d", "f">>,
     <<"1", ArabicThree, "2", ".", "p", "d", "f">>}

SortContents ==
    {S \in SUBSET {Entry(n, "file", "user") : n \in SortNames} : Cardinality(S) <= MaxSortFiles}

InitSort ==
    /\ mainKind = "dir"
    /\ mainDir = {Entry(AllSubNames[1], "dir", "user")}
    /\ \E S \in SortContents : subDir = [n \in SubNames |-> IF n = AllSubNames[1] THEN S ELSE {}]
    /\ disk = NoFile
    /\ configs = [i \in Insts |-> IF i = 1 THEN Construct(disk) ELSE NotLive]
    /\ pc = "idle"
    /\ run = EmptyRun
    /\ budget = MaxCalls

\* get_matching_files(directory, pattern), as merge_pdfs and preview_merge call it.
MatchFiles(listing, pattern) ==
    /\ pc = "idle"
    /\ LET raises == get_matching_files_raises(SortDir, listing, pattern)
       IN  run' = [EmptyRun EXCEPT
                     !.op = "match", !.main = SortDir, !.pattern = pattern,
                     !.evals = <<[subdir |-> SortDir, listing |-> listing,
                                  files |-> IF raises THEN <<>>
                                            ELSE get_matching_files(SortDir, listing, pattern),
                                  missing |-> <<>>]>>,
                     !.raised = IF raises THEN "find_error" ELSE "",
                     !.done = TRUE]
    /\ pc' = "done"
    /\ UNCHANGED <<mainKind, mainDir, subDir, disk, configs, budget>>

NextSort ==
    /\ pc = "idle"
    /\ \E listing \in Listdir(subDir[AllSubNames[1]]) : MatchFiles(listing, <<"*">>)

SpecSort == InitSort /\ [][NextSort]_vars

\* The paths of the files of the directory.
SortPaths == {PathJoin(SortDir, e.name) : e \in subDir[AllSubNames[1]]}

\* C13, as stated: the keys of any two paths are comparable, and the order of the
\* keys is total and transitive; digit runs compare as integers and the rest
\* without regard to case, so file2.pdf comes before File3.pdf and that before
\* file10.pdf; get_matching_files returns the matching files, each once, in
\* ascending order of the keys of their paths.
C13_NaturalOrderTotal ==
    LET key(x) == natural_sort_key(x)
        file(n) == PathJoin(SortDir, <<"f", "i", "l", "e">> \o n \o DotPdf)
        File3 == PathJoin(SortDir, <<"F", "i", "l", "e", "3">> \o DotPdf)
    IN  /\ \A x, y \in SortPaths : ~KeyLessRaises(key(x), key(y))
        /\ \A x, y \in SortPaths :
              KeyLess(key(x), key(y)) \/ KeyLess(key(y), key(x)) \/ key(x) = key(y)
        /\ \A x, y \in SortPaths : ~(KeyLess(key(x), key(y)) /\ KeyLess(key(y), key(x)))
        /\ \A x, y, z \in SortPaths :
              KeyLess(key(x), key(y)) /\ KeyLess(key(y), key(z)) => KeyLess(key(x), key(z))
        /\ KeyLess(key(file(<<"2">>)), key(File3))
        /\ KeyLess(key(File3), key(file(<<"1", "0">>)))
        /\ run.op = "match"
           => /\ run.raised = ""
              /\ {run.evals[1].files[k] : k \in 1..Len(run.evals[1].files)} = SortPaths
              /\ Len(run.evals[1].files) = Cardinality(SortPaths)
              /\ \A j, k \in 1..Len(run.evals[1].files) :
                    j < k => ~KeyLess(key(run.evals[1].files[k]), key(run.evals[1].files[j]))

\* What holds of C13: when no name of the directory has a digit outside 0-9, the
\* statement above holds.
NaturalOrderOnAsciiDigits ==
    (\A e \in subDir[AllSubNames[1]] : \A k \in 1..Len(e.name) : e.name[k] # ArabicThree)
    => C13_NaturalOrderTotal

(***************************************************************************)
(* The formatter on its own: format_output_filename applied to a template  *)
(* and a subdirectory, at a clock reading.                                 *)
(***************************************************************************)
FormatTemplates ==
    {<<"a">>, <<"a", ".", "p", "d", "f">>, <<"a", ".", "P", "D", "F">>, <<"a", ".", "P", "d", "f">>,
     <<"a", ".", "p", "d">>, <<"p", "d", "f">>,
     PhDirectory, PhDate, PhTime, PhDateTime,
     PhDirectory \o <<"_">> \o PhDate, PhDate \o PhTime,
     PhDirectory \o <<".", "P", "D", "F">>, PhDateTime \o <<"_">> \o PhDirectory}

FormatDirs ==
    {PathJoin(RootDir, n) : n \in {<<"p">>, <<"q", ".", "P", "D", "F">>, PhDate, PhTime}}

InitFormat ==
    /\ mainKind = "dir"
    /\ \E d \in FormatDirs : mainDir = {Entry(Basename(d), "dir", "user")}
    /\ subDir = [n \in SubNames |-> {}]
    /\ disk = NoFile
    /\ configs = [i \in Insts |-> IF i = 1 THEN Construct(disk) ELSE NotLive]
    /\ pc = "idle"
    /\ run = EmptyRun
    /\ budget = MaxCalls

\* format_output_filename(output_format, subdir), as merge_pdfs and preview_merge
\* call it, when datetime.now() reads t.
FormatName(template, directory_name, t) ==
    /\ pc = "idle"
    /\ run' = [EmptyRun EXCEPT
                 !.op = "format", !.main = directory_name, !.template = template, !.i = t,
                 !.ret = Some(format_output_filename(template, directory_name, t)),
                 !.done = TRUE]
    /\ pc' = "done"
    /\ UNCHANGED <<mainKind, mainDir, subDir, disk, configs, budget>>

NextFormat ==
    /\ pc = "idle"
    /\ \E template \in FormatTemplates, e \in mainDir, t \in Times :
          FormatName(template, PathJoin(RootDir, e.name), t)

SpecFormat == InitFormat /\ [][NextFormat]_vars

\* The string ends in ".pdf", in some letter case.
EndsPdfAnyCase(x) ==
    /\ Len(x) >= 4
    /\ x[Len(x) - 3] = "."
    /\ x[Len(x) - 2] \in {"p", "P"}
    /\ x[Len(x) - 1] \in {"d", "D"}
    /\ x[Len(x)] \in {"f", "F"}

\* The values of the placeholders for the call in run.
Replacements ==
    <<[old |-> PhDirectory, new |-> Basename(run.main)],
      [old |-> PhDate, new |-> DateStr(run.i)],
      [old |-> PhTime, new |-> TimeStr(run.i)],
      [old |-> PhDateTime, new |-> DateTimeStr(run.i)]>>

\* The replacements made one after the other, in the order of the indices.
RECURSIVE ReplaceInOrder(_, _)
ReplaceInOrder(x, order) ==
    IF order = <<>> THEN x
    ELSE ReplaceInOrder(Replace(x, Replacements[Head(order)].old, Replacements[Head(order)].new),
                        Tail(order))

\* C14: the name format_output_filename returns ends in ".pdf" in some letter
\* case; it is the string obtained by the substitutions when that ends in ".pdf"
\* in some letter case, and that string followed by ".pdf" otherwise; a template
\* without placeholder that ends in ".PDF" is returned as it is.
C14_PdfSuffixOnce ==
    run.op = "format"
    => LET substituted == ReplaceInOrder(run.template, <<1, 2, 3, 4>>)
       IN  /\ EndsPdfAnyCase(run.ret.val)
           /\ EndsPdfAnyCase(substituted) => run.ret.val = substituted
           /\ ~EndsPdfAnyCase(substituted) => run.ret.val = substituted \o DotPdf
           /\ (\A k \in 1..Len(run.template) : run.template[k] # "{")
              => substituted = run.template

C14_Witness ==
    /\ run.op = "format"
    /\ run.template = PhDirectory \o <<".", "P", "D", "F">>
    /\ run.ret.val = <<"p", ".", "P", "D", "F">>

\* The orders in which the four replacements can be made.
ReplacementOrders == {o \in [1..4 -> 1..4] : \A j, k \in 1..4 : o[j] = o[k] => j = k}

\* C15, as stated: making the four replacements in any order, and then ensuring
\* the suffix, gives the name format_output_filename returns.
C15_AnyOrderSameName ==
    run.op = "format"
    => \A o \in ReplacementOrders :
          LET x == ReplaceInOrder(run.template, o)
          IN  run.ret.val = IF EndsPdfAnyCase(x) THEN x ELSE x \o DotPdf

\* What holds of C15: the order does not matter when the base name of the
\* subdirectory contains no placeholder.
AnyOrderSameNameForPlainDirs ==
    (\A k \in 1..Len(run.main) : run.main[k] # "{") => C15_AnyOrderSameName

\* C17: when the main directory does not exist, or exists and is not a
\* directory, merge_pdfs and preview_merge end with an error and nothing is
\* returned, called or written; when it is a directory without any subdirectory
\* (and, in whole-root-config mode, a configuration is stored) they end without
\* error and return the empty list, as merge_pdfs does when every subdirectory
\* is empty.
C17_BadMainRaises ==
    run.op \in {"merge", "preview"}
    => /\ run.main0.kind # "dir"
          => /\ run.raised # "" /\ run.done /\ pc = "idle"
             /\ run.subdirs = <<>> /\ run.evals = <<>> /\ run.calls = <<>>
             /\ run.results = <<>> /\ run.preview = <<>>
             /\ NothingChanged
       /\ (/\ run.main0.kind = "dir" /\ run.done
           /\ ~(run.use_cfg /\ (~OrderOfRun.some \/ OrderOfRun.val = <<>>))
           /\ \/ \A e \in run.main0.dir : e.kind # "dir"
              \/ run.op = "merge" /\ \A n \in SubNames : run.fs0[n] = {})
          => /\ run.raised = ""
             /\ run.results = <<>> /\ run.preview = <<>> /\ run.calls = <<>>
             /\ subDir = run.fs0

C17_Witness ==
    /\ run.op = "preview" /\ run.main0.kind = "file" /\ ~run.use_cfg
    /\ run.raised = "read_error" /\ run.done

\* The regular files of S the pattern *.pdf matches.
PdfFiles(S) == {e \in S : e.kind = "file" /\ EndsWith(e.name, DotPdf)}

\* C23: in pattern mode a subdirectory in which *.pdf matches no regular file is
\* skipped: merge_pdfs selected nothing in it, did not call the codec for it,
\* left its content as it was, returned no path in it and raised nothing; with a
\* sink it noted that no file was found, without one it noted nothing.
C23_NoMatchSkipped ==
    (run.op = "merge" /\ ~run.use_cfg)
    => \A i \in 1..Len(run.evals) :
          LET sub == run.evals[i].subdir
              name == Basename(sub)
          IN  PdfFiles(run.fs0[name]) = {}
              => /\ run.evals[i].files = <<>>
                 /\ CallFor(sub) = 0
                 /\ subDir[name] = run.fs0[name]
                 /\ \A k \in 1..Len(run.results) : Dirname(run.results[k]) # sub
                 /\ run.raised = ""
                 /\ run.cb => \E k \in 1..Len(run.log) :
                                 run.log[k] = Msg("no_files", name, 0, <<>>)
                 /\ ~run.cb => run.log = <<>>

\* An empty subdirectory skipped, with the note, before one that was merged.
C23_Witness ==
    /\ MergeDone /\ ~run.use_cfg /\ run.cb
    /\ Len(run.evals) = 2 /\ Len(run.results) = 1
    /\ run.fs0[Basename(run.evals[1].subdir)] = {}
    /\ subDir[Basename(run.evals[1].subdir)] = {}
    /\ Dirname(run.results[1]) = run.evals[2].subdir
    /\ \E k \in 1..Len(run.log) :
          run.log[k] = Msg("no_files", Basename(run.evals[1].subdir), 0, <<>>)

\* The messages of the warning and of the end of the try block.
WarnOverwrite(output_filename) == Msg("warn_overwrite", output_filename, 0, <<>>)

\* C25: for every codec call of merge_pdfs with a sink: when the output path
\* existed, the last message the sink received before the call is the overwrite
\* warning for that name, and a successful call has replaced the file by the
\* merged one; when the path did not exist, no warning for the subdirectory was
\* emitted: the message before the call is not a warning.  The message after the
\* call is the success or the error of that subdirectory.
C25_WarnBeforeOverwrite ==
    (run.op = "merge" /\ run.cb)
    => \A k \in 1..Len(run.calls) :
          LET c == run.calls[k]
              name == Basename(c.subdir)
              fn == Basename(c.out)
              existed == HasEntry(run.fs0[name], fn)
          IN  /\ c.at >= 1 /\ c.at < Len(run.log)
              /\ existed <=> run.log[c.at] = WarnOverwrite(fn)
              /\ ~existed => run.log[c.at].m # "warn_overwrite"
              /\ run.log[c.at + 1] = IF c.outcome = "ok" THEN Msg("created", fn, 0, <<>>)
                                     ELSE Msg("error", name, 0, <<>>)
              /\ (existed /\ c.outcome = "ok")
                 => /\ EntryOf(subDir[name], fn).content = "merged"
                    /\ \E j \in 1..Len(run.results) : run.results[j] = c.out

\* A user's file a.pdf overwritten after the warning, in a run that wrote a
\* new file into another subdirectory without warning.
C25_Witness ==
    /\ MergeDone /\ run.cb /\ Len(run.calls) = 2
    /\ \E k \in 1..2 :
          /\ HasEntry(run.fs0[Basename(run.calls[k].subdir)], Basename(run.calls[k].out))
          /\ run.calls[k].outcome = "ok"
          /\ run.log[run.calls[k].at] = WarnOverwrite(Basename(run.calls[k].out))
          /\ EntryOf(subDir[Basename(run.calls[k].subdir)], Basename(run.calls[k].out)).content = "merged"
    /\ \E k \in 1..2 :
          /\ ~HasEntry(run.fs0[Basename(run.calls[k].subdir)], Basename(run.calls[k].out))
          /\ run.calls[k].outcome = "ok"
          /\ run.log[run.calls[k].at].m # "warn_overwrite"

(***************************************************************************)
(* The per-directory-name variant of the engine.  cli.py and main.py call  *)
(* set_directory_config(dir_name, components) and merge_pdfs(...,          *)
(* use_component_mode), which src/pdf_merger.py does not define; the       *)
(* variant is modelled from its specification: the mapping is keyed by the *)
(* base name of the subdirectory, taken verbatim, and a subdirectory       *)
(* without a configuration is selected by the pattern.                     *)
(***************************************************************************)
get_directory_config(d, directory_name) == DictGet(d, directory_name)

\* Component lists a caller can store: cli.py refuses an empty one.
ComponentOrders == {o \in Orders : o # <<>> /\ \A j, k \in 1..Len(o) : o[j] = o[k] => j = k}

\* Mappings from some base names to component lists, as the file holds them.
ComponentMaps ==
    {m \in SeqsUpTo([k : SubNames, v : ComponentOrders], MaxSub) :
        \A j, k \in 1..Len(m) : j < k => \E a, b \in 1..MaxSub :
              a < b /\ m[j].k = AllSubNames[a] /\ m[k].k = AllSubNames[b]}

InitComponent ==
    /\ mainKind = "dir"
    /\ mainDir = {Entry(n, "dir", "user") : n \in SubNames}
    /\ subDir \in [SubNames -> SubContents]
    /\ \E m \in ComponentMaps : disk = FileOf(JsonDump(m))
    /\ configs = [i \in Insts |-> IF i = 1 THEN Construct(disk) ELSE NotLive]
    /\ pc = "idle"
    /\ run = EmptyRun
    /\ budget = MaxCalls

\* merge_pdfs(main_directory, file_pattern, output_format, progress_callback,
\* use_component_mode=True), up to the loop.
ComponentBegin(inst, main_directory, file_pattern, output_format, cb, listing) ==
    /\ pc = "idle"
    /\ budget > 0
    /\ configs[inst].live
    /\ budget' = budget - 1
    /\ LET r0 == [EmptyRun EXCEPT !.op = "merge_component", !.inst = inst,
                                  !.main = main_directory, !.pattern = file_pattern,
                                  !.template = output_format, !.cb = cb, !.use_cfg = TRUE,
                                  !.fs0 = subDir,
                                  !.main0 = [kind |-> mainKind, dir |-> mainDir],
                                  !.store0 = [disk |-> disk, configs |-> configs]]
           subdirs == get_subdirectories(main_directory, listing)
       IN  IF ~MainExists(mainKind, main_directory)
           THEN run' = Raise(r0, "not_exist") /\ pc' = "idle"
           ELSE IF ~MainListable(mainKind, main_directory)
           THEN run' = Raise(r0, "read_error") /\ pc' = "idle"
           ELSE /\ run' = [r0 EXCEPT !.subdirs = subdirs, !.i = 1,
                                     !.log = LogIf(cb, <<>>, <<Msg("found_subdirs", <<>>, Len(subdirs), <<>>)>>)]
                /\ pc' = "component"
    /\ UNCHANGED <<mainKind, mainDir, subDir, disk, configs>>

\* A slip that treats a subdirectory without configuration as the whole-root
\* variant treats a root without one.
ComponentIteration_NoFallback(r, d, S, listing, t, outcome) ==
    LET components == get_directory_config(d, Basename(r.subdirs[r.i]))
        step == MergeIteration([r EXCEPT !.use_cfg = TRUE], components.val, S, listing, t, outcome)
    IN  IF components.some
        THEN [run |-> [step.run EXCEPT !.use_cfg = r.use_cfg], dir |-> step.dir]
        ELSE [run |-> Raise(r, "config_required"), dir |-> S]

\* One iteration of the loop in component mode: resolved against the configured
\* stems when the base name has a configuration, selected by the pattern otherwise.
ComponentIteration(r, d, S, listing, t, outcome) ==
    LET components == get_directory_config(d, Basename(r.subdirs[r.i]))
        step == IF components.some
                THEN MergeIteration([r EXCEPT !.use_cfg = TRUE], components.val,
                                    S, listing, t, outcome)
                ELSE MergeIteration([r EXCEPT !.use_cfg = FALSE], <<>>,
                                    S, listing, t, outcome)
    IN  [run |-> [step.run EXCEPT !.use_cfg = r.use_cfg], dir |-> step.dir]

ComponentSubdir(t, outcome) ==
    /\ pc = "component"
    /\ run.i <= Len(run.subdirs)
    /\ LET name == Basename(run.subdirs[run.i])
       IN  \E listing \in Listdir(subDir[name]) :
              \E step \in {ComponentIteration(run, configs[run.inst].map, subDir[name],
                                             listing, t, outcome)} :
                  /\ run' = step.run
                  /\ subDir' = [subDir EXCEPT ![name] = step.dir]
                  /\ pc' = IF step.run.raised # "" THEN "idle" ELSE pc
    /\ UNCHANGED <<mainKind, mainDir, disk, configs, budget>>

ComponentReturn ==
    /\ pc = "component"
    /\ run.i > Len(run.subdirs)
    /\ run' = [run EXCEPT !.done = TRUE]
    /\ pc' = "idle"
    /\ UNCHANGED <<mainKind, mainDir, subDir, disk, configs, budget>>

NextComponent ==
    \/ \E m \in MainArgs, p \in Patterns, o \in Templates, l \in Listdir(mainDir) :
          ComponentBegin(1, m, p, o, TRUE, l)
    \/ \E t \in Times, c \in CodecOutcomes : ComponentSubdir(t, c)
    \/ ComponentReturn

SpecComponent == InitComponent /\ [][NextComponent]_vars

\* The components stored under the base name of sub when the call in run began.
ComponentsOf(sub) == DictGet(run.store0.configs[run.inst].map, Basename(sub))

\* The regular files of S whose names end in ".pdf" as written, as paths in sub.
PdfPaths(sub, S) == {PathJoin(sub, e.name) : e \in {f \in S : f.kind = "file" /\ EndsWith(f.name, DotPdf)}}

\* C16: in component mode a subdirectory without configuration under its base
\* name is selected by the pattern *.pdf (its files are the regular files the
\* pattern matches, no stem is missing, and it is merged exactly if there is
\* one), without an error and whatever the other subdirectories have; one with a
\* configuration is resolved against its stems: merged exactly if each stem has
\* a file, with the k-th file resolving the k-th stem.
C16_ComponentFallback ==
    run.op = "merge_component"
    => /\ run.raised = ""
       /\ run.done => Len(run.evals) = Len(run.subdirs)
       /\ \A i \in 1..Len(run.evals) :
             LET ev == run.evals[i]
                 S == run.fs0[Basename(ev.subdir)]
                 c == ComponentsOf(ev.subdir)
                 called == \E k \in 1..Len(run.calls) :
                              run.calls[k].subdir = ev.subdir /\ run.calls[k].files = ev.files
             IN  /\ ev.subdir = run.subdirs[i]
                 /\ called <=> ev.files # <<>>
                 /\ ~c.some
                    => /\ ev.missing = <<>>
                       /\ {ev.files[k] : k \in 1..Len(ev.files)} = PdfPaths(ev.subdir, S)
                       /\ Len(ev.files) = Cardinality(PdfPaths(ev.subdir, S))
                 /\ c.some
                    => /\ ev.missing = Unmatched(S, c.val)
                       /\ ev.files # <<>> <=> Complete(S, c.val)
                       /\ ev.files # <<>>
                          => /\ Len(ev.files) = Len(c.val)
                             /\ \A k \in 1..Len(c.val) :
                                   /\ Dirname(ev.files[k]) = ev.subdir
                                   /\ NameResolves(Basename(ev.files[k]), c.val[k])
                                   /\ \E e \in S : e.kind = "file" /\ e.name = Basename(ev.files[k])

C16_Witness ==
    /\ run.op = "merge_component" /\ run.done /\ run.raised = ""
    /\ Len(run.evals) = 2 /\ Len(run.calls) = 2
    /\ ComponentsOf(run.evals[1].subdir).some
    /\ Len(ComponentsOf(run.evals[1].subdir).val) = 2
    /\ ~ComponentsOf(run.evals[2].subdir).some
    /\ Len(run.evals[2].files) = 1

(***************************************************************************)
(* Two instances constructed on the same configuration file, each then     *)
(* calling set_merge_config and delete_merge_config in any interleaving.   *)
(***************************************************************************)
MaxRaceCalls == 2

RaceRoots == {RootDir, OtherDir}

InitRace ==
    /\ mainKind = "absent"
    /\ mainDir = {}
    /\ subDir = [n \in SubNames |-> {}]
    /\ disk \in {NoFile,
                 FileOf(JsonDump(<<[k |-> RootDir, v |-> <<<<"a">>>>]>>)),
                 FileOf(JsonDump(<<[k |-> OtherDir, v |-> <<<<"b">>, <<"a">>>>],
                                   [k |-> RootDir, v |-> <<<<"a">>>>]>>))}
    /\ configs = [i \in Insts |-> Construct(disk)]
    /\ pc = "idle"
    /\ run = EmptyRun
    /\ budget = MaxRaceCalls

NextRace ==
    \/ \E i \in Insts, r \in RaceRoots, o \in StoreOrders, c \in SaveOutcomes :
          SetMergeConfig(i, r, o, c)
    \/ \E i \in Insts, r \in RaceRoots, c \in SaveOutcomes : DeleteMergeConfig(i, r, c)

SpecRace == InitRace /\ [][NextRace]_vars

\* The calls that opened the configuration file for writing.
Writes == {n \in 1..Len(run.log) : run.log[n].io # "none"}

\* The last of them.
LastWrite == CHOOSE n \in Writes : \A m \in Writes : m <= n

\* C21: when the last write of the configuration file was completed, the file
\* is the JSON text of the mapping of the instance that made it and loads back
\* to that mapping, whatever the other instance holds and wrote before: for
\* every key the file gives what the writer's mapping gives.
C21_LastWriterWins ==
    (Writes # {} /\ run.log[LastWrite].io = "ok")
    => LET w == run.log[LastWrite].inst
       IN  /\ run.log[LastWrite].raised = ""
           /\ disk = FileOf(JsonDump(configs[w].map))
           /\ load_configs(disk) = configs[w].map
           /\ \A r \in RaceRoots :
                 get_merge_config(load_configs(disk), r) = get_merge_config(configs[w].map, r)

\* Instance 1 stored an order for OtherDir, then instance 2, constructed before,
\* stored one for RootDir: the file no longer holds the entry of instance 1.
C21_Witness ==
    /\ Len(run.log) = 2
    /\ run.log[1].op = "set" /\ run.log[1].inst = 1 /\ run.log[1].io = "ok"
    /\ run.log[1].main = OtherDir
    /\ run.log[2].op = "set" /\ run.log[2].inst = 2 /\ run.log[2].io = "ok"
    /\ run.log[2].main = RootDir
    /\ get_merge_config(configs[1].map, OtherDir) = Some(run.log[1].order)
    /\ get_merge_config(load_configs(disk), OtherDir) = None
    /\ get_merge_config(load_configs(disk), RootDir) = Some(run.log[2].order)

(***************************************************************************)
(* More on the selectors, checked under SpecResolve.                       *)
(***************************************************************************)
\* The call in run resolved the order run.order in the directory S.
Resolved == run.op = "resolve" /\ run.done

ResolvedDir == subDir[AllSubNames[1]]

\* C22: for the order resolved, made of a shorter order and one more stem, and
\* every listing of the same directory: the stems missing for the shorter order
\* are the first of those missing for the longer one; the longer order is not
\* complete when the shorter is not; and it is not complete when the added stem
\* has no file.
C22_CompletenessMonotonic ==
    (Resolved /\ run.order # <<>>)
    => \A listing \in Listdir(ResolvedDir) :
          LET shorter == SubSeq(run.order, 1, Len(run.order) - 1)
              added == run.order[Len(run.order)]
              before == find_merge_config_files(ResolveDir, listing, shorter)
              missing == run.evals[1].missing
          IN  /\ Len(before.missing) <= Len(missing)
              /\ SubSeq(missing, 1, Len(before.missing)) = before.missing
              /\ ~before.all_found => ~run.ret.some
              /\ ~StemResolves(ResolvedDir, added)
                 => /\ ~run.ret.some
                    /\ missing = Append(before.missing, added)
              /\ StemResolves(ResolvedDir, added)
                 => /\ run.ret.some = before.all_found
                    /\ missing = before.missing

\* A complete order of one stem made incomplete by a second stem without file.
C22_Witness ==
    /\ Resolved /\ Len(run.order) = 2
    /\ StemResolves(ResolvedDir, run.order[1])
    /\ ~StemResolves(ResolvedDir, run.order[2])
    /\ ~run.ret.some
    /\ run.evals[1].missing = <<run.order[2]>>
    /\ \A listing \in Listdir(ResolvedDir) :
          find_merge_config_files(ResolveDir, listing, <<run.order[1]>>).all_found

(***************************************************************************)
(* The pattern selector on a directory that holds, besides regular files,  *)
(* a directory, a symbolic link to a regular file and a dangling link.     *)
(***************************************************************************)
MaxGlobFiles == 3

GlobEntries ==
    {Entry(<<"a", ".", "p", "d", "f">>, "file", "user"),
     Entry(<<"b", ".", "p", "d", "f">>, "dir", "user"),
     Entry(<<"c", ".", "p", "d", "f">>, "link", "user"),
     Entry(<<"d", ".", "p", "d", "f">>, "broken", "user"),
     Entry(<<"a", ".", "t", "x", "t">>, "file", "user"),
     Entry(<<".", "h", ".", "p", "d", "f">>, "file", "user")}

InitGlob ==
    /\ mainKind = "dir"
    /\ mainDir = {Entry(AllSubNames[1], "dir", "user")}
    /\ \E S \in {T \in SUBSET GlobEntries : Cardinality(T) <= MaxGlobFiles} :
          subDir = [n \in SubNames |-> IF n = AllSubNames[1] THEN S ELSE {}]
    /\ disk = NoFile
    /\ configs = [i \in Insts |-> IF i = 1 THEN Construct(disk) ELSE NotLive]
    /\ pc = "idle"
    /\ run = EmptyRun
    /\ budget = MaxCalls

NextGlob ==
    /\ pc = "idle"
    /\ \E listing \in Listdir(subDir[AllSubNames[1]]), pattern \in {<<"*", ".", "p", "d", "f">>, <<"*">>} :
          MatchFiles(listing, pattern)

SpecGlob == InitGlob /\ [][NextGlob]_vars

\* The entry of the directory a returned path names.
GlobEntryOf(path) == EntryOf(subDir[AllSubNames[1]], Basename(path))

Matched == run.op = "match" /\ run.done /\ run.raised = ""

\* C24, as stated: every path get_matching_files returns names a regular file
\* of the directory: not a directory, and not a symbolic link, whatever the
\* link points to.
C24_RegularFilesOnly ==
    Matched
    => \A k \in 1..Len(run.evals[1].files) :
          /\ Dirname(run.evals[1].files[k]) = SortDir
          /\ HasEntry(subDir[AllSubNames[1]], Basename(run.evals[1].files[k]))
          /\ GlobEntryOf(run.evals[1].files[k]).kind = "file"

\* What holds of C24: a directory and a dangling link are never returned; a
\* regular file, and a link to one, is returned exactly if the pattern matches
\* its name.
RegularFilesAndLinksToThem ==
    Matched
    => /\ \A k \in 1..Len(run.evals[1].files) :
             /\ HasEntry(subDir[AllSubNames[1]], Basename(run.evals[1].files[k]))
             /\ GlobEntryOf(run.evals[1].files[k]).kind \in {"file", "link"}
       /\ \A e \in subDir[AllSubNames[1]] :
             (e.kind \in {"file", "link"} /\ e.name[1] # "."
              /\ (run.pattern = <<"*">> \/ EndsWith(e.name, DotPdf)))
             => \E k \in 1..Len(run.evals[1].files) :
                   run.evals[1].files[k] = PathJoin(SortDir, e.name)

(***************************************************************************)
(* merge_pdfs with and without a sink.  Each iteration also keeps, with    *)
(* what it evaluated, the clock reading and the codec outcome it met, so   *)
(* that the same call can be gone through again with the other sink.       *)
(***************************************************************************)
InitSink ==
    /\ mainKind = "dir"
    /\ mainDir = {Entry(n, "dir", "user") : n \in SubNames}
    /\ subDir \in [SubNames -> SubContents]
    /\ disk \in {NoFile, FileOf(JsonDump(<<[k |-> RootDir, v |-> <<AllStems[1], AllStems[2]>>]>>))}
    /\ configs = [i \in Insts |-> IF i = 1 THEN Construct(disk) ELSE NotLive]
    /\ pc = "idle"
    /\ run = EmptyRun
    /\ budget = MaxCalls

\* The iteration of MergeSubdir; the evaluation it appends also holds t and outcome.
SinkSubdir(t, outcome) ==
    /\ pc = "merge"
    /\ run.i <= Len(run.subdirs)
    /\ LET name == Basename(run.subdirs[run.i])
           merge_order == get_merge_config(configs[run.inst].map, run.main).val
       IN  \E listing \in Listdir(subDir[name]) :
              \E step \in {MergeIteration(run, merge_order, subDir[name], listing, t, outcome)} :
                  /\ run' = [step.run EXCEPT
                               !.evals = [k \in 1..Len(@) |->
                                            IF k > Len(run.evals)
                                            THEN [subdir |-> @[k].subdir, listing |-> @[k].listing,
                                                  files |-> @[k].files, missing |-> @[k].missing,
                                                  t |-> t, outcome |-> outcome]
                                            ELSE @[k]]]
                  /\ subDir' = [subDir EXCEPT ![name] = step.dir]
                  /\ pc' = IF step.run.raised # "" THEN "idle" ELSE pc
    /\ UNCHANGED <<mainKind, mainDir, disk, configs, budget>>

NextSink ==
    \/ \E m \in MainArgs, p \in Patterns, o \in {PhDirectory \o <<"_">> \o PhTime, <<"a">>}, cb \in BOOLEAN, u \in BOOLEAN,
          l \in Listdir(mainDir) :
            MergeBegin(1, m, p, o, cb, u, l)
    \/ \E t \in Times, c \in CodecOutcomes : SinkSubdir(t, c)
    \/ MergeReturn

SpecSink == InitSink /\ [][NextSink]_vars

\* The call in run gone through again from the iteration k on, for the call r
\* and the subdirectories fs, with the listings, clock readings and codec
\* outcomes the call in run met.
RECURSIVE Again(_, _, _)
Again(r, fs, k) ==
    IF k > Len(run.evals) \/ r.raised # "" THEN [run |-> r, fs |-> fs]
    ELSE LET name == Basename(r.subdirs[r.i])
         IN  CHOOSE next \in {Again(step.run, [fs EXCEPT ![name] = step.dir], k + 1) :
                                step \in {MergeIteration(r, get_merge_config(configs[r.inst].map, r.main).val,
                                                         fs[name], run.evals[k].listing,
                                                         run.evals[k].t, run.evals[k].outcome)}} : TRUE

\* The codec calls, without the count of messages.
CallsMade(r) == [k \in 1..Len(r.calls) |->
                    [subdir |-> r.calls[k].subdir, files |-> r.calls[k].files,
                     out |-> r.calls[k].out, outcome |-> r.calls[k].outcome]]

\* C26: at every point of a merge_pdfs call, the same call made with the other
\* sink (None for a recording sink, a recording sink for None) on the same file
\* system and configuration, meeting the same listings, clock readings and
\* codec outcomes, has the same result list, made the same codec calls, left
\* the same files, and raised the same; the call without sink noted nothing.
C26_SinkObservesOnly ==
    (run.op = "merge" /\ mainKind = run.main0.kind /\ mainDir = run.main0.dir)
    => /\ ~run.cb => run.log = <<>>
       /\ \A l \in Listdir(mainDir) :
             \A other \in {MergeStart(run.inst, run.main, run.pattern, run.template, ~run.cb,
                                       run.use_cfg, l)} :
               (other.raised # "" \/ other.subdirs = run.subdirs)
               => \A twin \in {Again(other, run.fs0, 1)} :
                    /\ twin.run.results = run.results
                    /\ twin.fs = subDir
                    /\ CallsMade(twin.run) = CallsMade(run)
                    /\ twin.run.raised = run.raised
                    /\ twin.run.i = run.i
                    /\ twin.run.cb # run.cb
                    /\ Len(twin.run.evals) = Len(run.evals)

\* A call with a sink that merged one subdirectory, overwriting a file after
\* the warning, and failed on the other.
C26_Witness ==
    /\ MergeDone /\ run.cb
    /\ Len(run.calls) = 2 /\ Len(run.results) = 1
    /\ \E k \in 1..Len(run.log) : run.log[k].m = "warn_overwrite"
    /\ \E k \in 1..Len(run.log) : run.log[k].m = "error"

(***************************************************************************)
(* A merge_pdfs call followed by a second merge_pdfs or preview_merge call *)
(* on the same main directory: one subdirectory, which may hold two files  *)
(* whose names differ by letter case only.                                 *)
(***************************************************************************)
MaxRepeatCalls == 2

InitRepeat ==
    /\ mainKind = "dir"
    /\ mainDir = {Entry(AllSubNames[1], "dir", "user")}
    /\ \E S \in SUBSET {Entry(AllFileNames[k], "file", "user") : k \in 1..3} :
          subDir = [n \in SubNames |-> IF n = AllSubNames[1] THEN S ELSE {}]
    /\ \E o \in {<<AllStems[1]>>, <<AllStems[1], AllStems[2]>>} :
          disk = FileOf(JsonDump(<<[k |-> RootDir, v |-> o]>>))
    /\ configs = [i \in Insts |-> IF i = 1 THEN Construct(disk) ELSE NotLive]
    /\ pc = "idle"
    /\ run = EmptyRun
    /\ budget = MaxRepeatCalls

NextRepeat ==
    \/ \E m \in MainArgs, p \in {<<"*", ".", "p", "d", "f">>, <<"b", "*">>},
          o \in {<<"a">>, AllFileNames[3], PhDirectory \o <<"_">> \o PhTime},
          u \in BOOLEAN, l \in Listdir(mainDir) :
            MergeBegin(1, m, p, o, FALSE, u, l)
    \/ \E c \in {"ok", "read_error"} : MergeSubdir(0, c)
    \/ MergeReturn
    \/ \E m \in MainArgs, p \in {<<"*", ".", "p", "d", "f">>, <<"b", "*">>},
          u \in BOOLEAN, l \in Listdir(mainDir) :
            PreviewBegin(1, m, p, <<"a">>, u, l)
    \/ PreviewSubdir(0)
    \/ PreviewReturn

SpecRepeat == InitRepeat /\ [][NextRepeat]_vars

\* The call in run is a merge_pdfs or preview_merge call that returned, made
\* after a merge_pdfs call.
SecondDone == (MergeDone \/ PreviewDone) /\ run.prev.op = "merge"

\* The codec calls of the earlier merge_pdfs call that wrote their output.
Written == {k \in 1..Len(run.prev.calls) : run.prev.calls[k].outcome = "ok"}

\* The input list the call in run selected for the subdirectory.
Selected(subdir) ==
    IF run.op = "merge"
    THEN IF \E k \in 1..Len(run.evals) : run.evals[k].subdir = subdir
         THEN run.evals[CHOOSE k \in 1..Len(run.evals) : run.evals[k].subdir = subdir].files
         ELSE <<>>
    ELSE IF EntriesFor(subdir) # {}
         THEN run.preview[CHOOSE k \in EntriesFor(subdir) : TRUE].files
         ELSE <<>>

IsSelected(path) == \E j \in 1..Len(Selected(Dirname(path))) : Selected(Dirname(path))[j] = path

\* The name matches one of the configured stems.
MatchesStem(name) == \E j \in 1..Len(OrderOfRun.val) : NameResolves(name, OrderOfRun.val[j])

\* No two regular files of S resolve the same stem of the order.
Unambiguous(S, order) ==
    \A j \in 1..Len(order) : \A e, f \in S :
        (IsFile(e) /\ IsFile(f) /\ NameResolves(e.name, order[j]) /\ NameResolves(f.name, order[j]))
        => e = f

\* C27, as stated: the output an earlier merge_pdfs call wrote is among the
\* inputs a later merge_pdfs or preview_merge call selects for its subdirectory
\* exactly if its name matches the pattern (pattern mode) or one of the
\* configured stems (config mode); and, in config mode with an output name that
\* matches no stem, the repeated merge selects the input list of the first.
C27_SelectedIffMatches ==
    SecondDone
    => \A k \in Written :
          LET c == run.prev.calls[k]
          IN  /\ ~run.use_cfg => (IsSelected(c.out) <=> FnMatch(run.pattern, Basename(c.out)))
              /\ run.use_cfg => (IsSelected(c.out) <=> MatchesStem(Basename(c.out)))
              /\ (run.use_cfg /\ run.prev.use_cfg /\ run.op = "merge"
                    /\ ~MatchesStem(Basename(c.out)))
                 => Selected(c.subdir) = c.files

\* C27, amended: in pattern mode the earlier output is selected exactly if its
\* name matches the pattern; in config mode it is selected only if its name
\* matches one of the configured stems, and it is selected whenever it does,
\* every stem resolves, and no two files of the subdirectory match the same
\* stem; in config mode with an output name that matches no stem, the repeated
\* merge selects the input list of the first when no two files of the
\* subdirectory match the same stem.
C27_NoSelfExclusion ==
    SecondDone
    => \A k \in Written :
          LET c == run.prev.calls[k]
              S == run.fs0[Basename(c.subdir)]
              plain == Complete(S, OrderOfRun.val) /\ Unambiguous(S, OrderOfRun.val)
          IN  /\ ~run.use_cfg => (IsSelected(c.out) <=> FnMatch(run.pattern, Basename(c.out)))
              /\ run.use_cfg => (IsSelected(c.out) => MatchesStem(Basename(c.out)))
              /\ (run.use_cfg /\ plain /\ MatchesStem(Basename(c.out))) => IsSelected(c.out)
              /\ (run.use_cfg /\ run.prev.use_cfg /\ run.op = "merge"
                    /\ ~MatchesStem(Basename(c.out)) /\ Unambiguous(S, OrderOfRun.val))
                 => Selected(c.subdir) = c.files

\* A second merge, by pattern, that took the output of the first among its inputs.
C27_Witness ==
    /\ SecondDone /\ MergeDone /\ ~run.use_cfg
    /\ \E k \in Written : IsSelected(run.prev.calls[k].out)
    /\ \E k \in 1..Len(run.calls) : run.calls[k].outcome = "ok"

====
